---------------------------- MODULE Spec2Model ----------------------------
(***************************************************************************)
(* State-machine model of the real-time duplex speech session:             *)
(*   OpenAIRealtimeClient   (realtime_client.py)                           *)
(*   AudioManager           (audio_manager.py)                             *)
(*   EnhancedDialogueSystem (enhanced_dialogue_system.py)                  *)
(*                                                                         *)
(* Strings are modelled as sequences of tokens (a token stands for a run   *)
(* of characters); str.lower() and the substring test `needle in s` are    *)
(* computed on those sequences.  The remote service and the transport are  *)
(* the environment: messages arrive on a connection in order, a send       *)
(* either writes the message or raises, a connection may close.            *)
(***************************************************************************)
EXTENDS Integers, Sequences, FiniteSets, TLC

----------------------------------------------------------------------------
\* Bounds of the model (not program constants).

\* connection objects alive at the same time
MaxConns == 2
\* playback worker threads left behind by timed-out joins
MaxStale == 2
\* service and transport events (messages emitted, closes) in a behaviour
MaxEmit == 2
\* client operations (configure/send/commit/interrupt) a behaviour may call
MaxCalls == 2

----------------------------------------------------------------------------
\* Program constants.

\* realtime_client.py:85   max_retries = 3
max_retries == 3

None == 0

Conns == 1..MaxConns

\* accepted microphone frames in a behaviour
MaxFrames == 30
\* microphone frames discarded for low RMS in a behaviour
MaxDiscarded == 1
\* _process_audio_input threads alive at the same time
MaxThreads == 2
\* presses of the voice-mode key in a behaviour
MaxToggles == 3
\* accepted frames waiting in audio_buffer
MaxBacklog == 2
\* frames accepted where the samples of the frames vary
MaxAccumulated == 13
\* frames accepted where voice mode is switched on and off
MaxInterleaved == 14
\* the depth a capped input queue would be held to
InputQueueCap == 8

Threads == 1..MaxThreads

\* AudioManager(sample_rate=24000, ...)  (enhanced_dialogue_system.py:57)
sample_rate == 24000
\* chunk_size in _process_audio_input  (enhanced_dialogue_system.py:367)
chunk_size == 1024
\* min_commit_duration = 0.5 seconds, in milliseconds
\* (enhanced_dialogue_system.py:369)
min_commit_duration_ms == 500
\* EnhancedDialogueSystem.audio_gain
audio_gain == 5
\* the range of a 16-bit PCM sample (np.int16)
Int16Min == -32768
Int16Max == 32767

----------------------------------------------------------------------------
\* Strings as token sequences.

\* str.lower() on one token
LowerTok(t) ==
    CASE t = "Cancellation" -> "cancellation"
      [] t = "No"           -> "no"
      [] t = "Active"       -> "active"
      [] t = "Buffer"       -> "buffer"
      [] t = "Unknown"      -> "unknown"
      [] OTHER              -> t

\* str.lower()
Lower(s) == [i \in 1..Len(s) |-> LowerTok(s[i])]

\* `needle in hay`
Contains(needle, hay) ==
    \E i \in 0..(Len(hay) - Len(needle)) :
        SubSeq(hay, i + 1, i + Len(needle)) = needle

NoActiveResponseFound == <<"no", "active", "response", "found">>
BufferTooSmall == <<"buffer", "too", "small">>
CancellationFailed == <<"cancellation", "failed">>

\* error messages the service may carry in an error event
ErrCancelRace == <<"Cancellation", "failed", ":", "no", "active", "response", "found">>
ErrCancelRaceCaps == <<"No", "Active", "response", "found">>
ErrBuffer == <<"Buffer", "too", "small">>
ErrCancelFailed == <<"Cancellation", "failed">>
ErrOther == <<"rate", "limit">>
ErrUnknown == <<"Unknown", "error">>
ErrConnRetries == <<"Connection", "failed", "after", "retries">>
ErrSendAudio == <<"Failed", "to", "send", "audio", "chunk">>
ErrCommitNotConnected == <<"COMMIT", "Not", "connected">>
ErrCommitFailed == <<"COMMIT", "Failed", "to", "commit">>

----------------------------------------------------------------------------
\* Personas.

\* realtime_client.py:48-70  keys of OpenAIRealtimeClient.npc_voices
ClientPersonas == {"HR", "CEO", "Engineer"}

\* realtime_client.py:48-70  npc_voices[npc]["voice"]
ClientVoice(npc) ==
    CASE npc = "HR"       -> "alloy"
      [] npc = "CEO"      -> "echo"
      [] npc = "Engineer" -> "fable"
      [] OTHER            -> "alloy"

\* realtime_client.py:48-70  npc_voices[npc]["instructions"]
ClientInstructions(npc) ==
    CASE npc = "HR"       -> "client:HR"
      [] npc = "CEO"      -> "client:CEO"
      [] npc = "Engineer" -> "client:Engineer"
      [] OTHER            -> "client:HR"

\* realtime_client.py:48-70  npc_voices[npc]["sample"]
ClientSample(npc) ==
    CASE npc = "HR"       -> "sample:HR"
      [] npc = "CEO"      -> "sample:CEO"
      [] npc = "Engineer" -> "sample:Engineer"

Profile(voice, instructions, sample) ==
    [voice |-> voice, instructions |-> instructions, sample |-> sample]

\* npc_voices as __init__ builds it.  The application never calls
\* set_npc_voice_config, so that send_text_message reads this table
InitialVoices ==
    [p \in ClientPersonas |->
        Profile(ClientVoice(p), ClientInstructions(p), ClientSample(p))]

\* persona arguments a caller may pass to send_text_message (npc_name=None
\* is the string "None")
NpcArgs == {"HR", "CEO", "InvalidNPC", "None"}

----------------------------------------------------------------------------
\* Messages.

\* outbound message: type, and the voice / audio payload it carries
Out(type, arg) == [type |-> type, arg |-> arg]

\* inbound message as decoded by json.loads: type, payload field
\* ("delta" / "text" / "transcript" / error.message) as tokens, whether
\* the payload is what its handler expects (decodable base64 for audio, a
\* str for text), and the response it belongs to
In(type, data, ok, resp) == [type |-> type, data |-> data, ok |-> ok, resp |-> resp]

Malformed == "<not json>"

\* a message that is JSON but not an object: data.get("type") raises
NotAnObject == "<json, not an object>"

\* what the service may send in the session protocol
SessionInbound ==
    { In("session.created", <<>>, TRUE, 0),
      In("response.audio.delta", <<100>>, TRUE, 0),
      In("response.audio.delta", <<100>>, FALSE, 0),
      In("response.text.delta", <<"a">>, TRUE, 0),
      In("response.text.done", <<"a", "b">>, TRUE, 0),
      In("response.text.done", <<>>, TRUE, 0),
      In("response.audio_transcript.done", <<"b">>, TRUE, 0),
      In("input_audio_buffer.speech_started", <<>>, TRUE, 0),
      In("input_audio_buffer.speech_stopped", <<>>, TRUE, 0),
      In("response.done", <<>>, TRUE, 0),
      In("error", ErrCancelRace, TRUE, 0),
      In("error", ErrCancelRaceCaps, TRUE, 0),
      In("error", ErrBuffer, TRUE, 0),
      In("error", ErrOther, TRUE, 0),
      In("session.updated", <<>>, TRUE, 0),
      In(Malformed, <<>>, FALSE, 0) }

\* what a _process_audio_input thread holds in accumulated_audio, and what
\* np.concatenate makes of it: frames are taken from audio_buffer in queue
\* order, so the content is an increasing run of accepted frames, kept as
\* its first frame, the number of frames, and whether the frames are
\* consecutive (first, first + 1, ..., first + n - 1), together with the
\* list of the frames' samples (audio)
NoAudio == [first |-> 0, n |-> 0, consecutive |-> TRUE, audio |-> <<>>]

\* variant of the accumulation that puts the new frame in front
Accumulate_Prepend(a, f, audio_np) ==
    IF a.n = 0
    THEN [first |-> f, n |-> 1, consecutive |-> TRUE, audio |-> <<audio_np>>]
    ELSE [first |-> a.first, n |-> a.n + 1,
          consecutive |-> a.consecutive /\ f = a.first + a.n,
          audio |-> <<audio_np>> \o a.audio]

\* accumulated_audio.append(audio_data) and accumulated_duration +=
\* chunk_duration, for frame f with samples audio_np
Accumulate(a, f, audio_np) ==
    IF a.n = 0
    THEN [first |-> f, n |-> 1, consecutive |-> TRUE, audio |-> <<audio_np>>]
    ELSE [first |-> a.first, n |-> a.n + 1,
          consecutive |-> a.consecutive /\ f = a.first + a.n,
          audio |-> Append(a.audio, audio_np)]

\* np.concatenate(accumulated_audio).reshape(-1): the samples of the
\* frames, one frame after the other
RECURSIVE Concatenate(_)
Concatenate(frames) ==
    IF frames = <<>> THEN <<>>
    ELSE Head(frames) \o Concatenate(Tail(frames))

\* np.clip(audio_to_send, -32768, 32767).astype(np.int16)
ClipInt16(audio) ==
    [i \in 1..Len(audio) |->
        IF audio[i] < Int16Min THEN Int16Min
        ELSE IF audio[i] > Int16Max THEN Int16Max
        ELSE audio[i]]

\* _on_audio_input: the 16-bit samples as float32, multiplied by audio_gain
Amplify(pcm) == [i \in 1..Len(pcm) |-> pcm[i] * audio_gain]

\* _on_audio_input: rms < 0.0001.  The samples are integers times the
\* gain, so the RMS of a frame is below 0.0001 exactly when every sample
\* is zero; the mean of no samples is nan, and nan < 0.0001 is False
LowRms(audio_np) ==
    /\ audio_np # <<>>
    /\ \A i \in 1..Len(audio_np) : audio_np[i] = 0

\* variant of the commit condition that compares samples with milliseconds
ReachedMinCommit_Samples(n) ==
    n * chunk_size >= min_commit_duration_ms

\* accumulated_duration >= min_commit_duration after n frames, each counted
\* as chunk_duration = chunk_size / sample_rate seconds
ReachedMinCommit(n) ==
    n * chunk_size * 1000 >= min_commit_duration_ms * sample_rate

\* a coroutine posted to the event loop with run_coroutine_threadsafe
Task(op, arg) == [op |-> op, arg |-> arg]

\* the main thread is not inside send_text_message
MainIdle == [at |-> "idle", npc |-> ""]

ErrSpeechDisabled == <<"Speech", "mode", "is", "disabled", ".">>
ErrVoiceConnection == <<"Voice", "API", "connection", "failed", ".">>

\* a callback invocation
Cb(name, data, complete) == [cb |-> name, data |-> data, complete |-> complete]

----------------------------------------------------------------------------
VARIABLES
    \* OpenAIRealtimeClient
    is_connected, websocket, stop_event, interrupt_event,
    is_processing, is_playing, is_recording,
    current_voice, current_instructions, current_npc_name,
    \* OpenAIRealtimeClient.npc_voices: persona -> voice profile
    npc_voices,
    \* transport (environment)
    ws_state, inbound, outbound,
    \* coroutines of the client
    conn_pc, attempt, conn_ret, disc_pc, op_pc, listener,
    \* EnhancedDialogueSystem
    npc_message, partial_response, last_error_message,
    speech_mode, speech_enabled, is_listening, is_speaking,
    \* the main thread inside the orchestrator's send_text_message: where
    \* it is, and the persona of the conversation
    main_pc,
    \* the input line of the dialogue
    user_input,
    \* the event loop self.async_loop refers to: "none" (None, as
    \* constructed), "running" or "stopped" (stop() was called on it; the
    \* attribute keeps referring to it)
    async_loop,
    \* the thread self.async_thread refers to: "none", "starting" (started,
    \* its run_async_loop has not assigned self.async_loop yet), "alive"
    \* (inside run_forever) or "dead" (run_forever returned)
    async_thread,
    \* coroutines posted with run_coroutine_threadsafe to a loop that is
    \* stopped: no thread runs that loop again
    stranded,
    \* AudioManager
    am_is_playing, should_stop, output_queue, pb_worker,
    \* playback worker threads that stop_playback gave up joining, alive
    \* with their output stream open
    pb_stale,
    \* history
    lastAct, prevAct, op_sent, op_arg, cbs, lastMsg, emitted, calls,
    \* the orchestrator's event loop thread: coroutines posted with
    \* asyncio.run_coroutine_threadsafe, not yet started
    loopq,
    \* voice capture: AudioManager.is_recording, the orchestrator's
    \* audio_buffer queue, frames accepted / discarded so far, the
    \* _process_audio_input threads and what each has accumulated
    am_is_recording, audio_buffer, accepted, discarded, thr_pc, acc, toggles,
    \* the samples of the accepted frames, in the order they were put on
    \* audio_buffer (audio_buffer holds their positions)
    pushed,
    \* history of the audio paths: chunks drained by the threads, chunks
    \* played, responses interrupted by the player
    drained, played, interrupted,
    \* AudioManager: input_queue (each waiting frame by its number of
    \* samples), the volumes in percent, whether the input / output device
    \* can be opened (environment), the buffer of the playback worker and
    \* the frame its callback emitted last
    input_queue, input_volume, output_volume, input_device_ok,
    output_device_ok, pb_buffer, outdata

clientVars == <<is_connected, websocket, stop_event, interrupt_event,
                is_processing, is_playing, is_recording,
                current_voice, current_instructions, current_npc_name, npc_voices>>
wireVars == <<ws_state, inbound, outbound>>
coVars == <<conn_pc, attempt, conn_ret, disc_pc, op_pc, listener>>
dlgVars == <<npc_message, partial_response, last_error_message,
             speech_mode, speech_enabled, is_listening, is_speaking, main_pc,
             user_input, async_loop, async_thread, stranded>>
amVars == <<am_is_playing, should_stop, output_queue, pb_worker, pb_stale>>
histVars == <<lastAct, prevAct, op_sent, op_arg, cbs, lastMsg, emitted, calls, loopq>>

\* voice capture and audio history, left alone by the session's coroutines
engVars == <<input_queue, input_volume, output_volume, input_device_ok,
             output_device_ok, pb_buffer, outdata>>
xVars == <<am_is_recording, audio_buffer, accepted, discarded, thr_pc, acc,
           toggles, pushed, drained, played, interrupted, engVars>>

vars == <<clientVars, wireVars, coVars, dlgVars, amVars, histVars, xVars>>


----------------------------------------------------------------------------
\* History bookkeeping: the last two completed calls / handled messages.

Act(a) ==
    /\ lastAct' = a
    /\ prevAct' = lastAct

\* the caller awaits its calls one after the other: no connect, disconnect
\* or client operation is in progress
CallerIdle ==
    /\ conn_pc = "idle"
    /\ disc_pc = "idle"
    /\ op_pc = "idle"

\* `await self.websocket.send(...)` writes the message when the transport
\* is open and raises otherwise
CanSend ==
    /\ websocket # None
    /\ ws_state[websocket] = "open"

----------------------------------------------------------------------------
\* AudioManager (audio_manager.py)

\* start_playback(): flags set, worker thread started.  The worker opens
\* the output stream; when that raises, the exception ends the worker
\* thread ("failed") outside the try of start_playback
start_playback ==
    IF am_is_playing
    THEN UNCHANGED <<am_is_playing, should_stop, pb_worker, pb_stale>>
    ELSE /\ am_is_playing' = TRUE
         /\ should_stop' = FALSE
         /\ pb_worker' = IF output_device_ok THEN "running" ELSE "failed"
         /\ UNCHANGED pb_stale

\* play_audio_chunk(audio_data): lazy start, then output_queue.put
play_audio_chunk(chunk) ==
    /\ start_playback
    /\ output_queue' = Append(output_queue, chunk)

----------------------------------------------------------------------------
\* EnhancedDialogueSystem callbacks (enhanced_dialogue_system.py)

\* _on_text_received(text, is_complete)
OnTextReceived(text, is_complete) ==
    /\ IF is_complete
       THEN /\ npc_message' = text
            /\ UNCHANGED partial_response
       ELSE /\ partial_response' = partial_response \o text
            /\ npc_message' = partial_response \o text
    /\ UNCHANGED <<main_pc, user_input, async_loop, async_thread, stranded, last_error_message, speech_mode, speech_enabled,
                   is_listening, is_speaking>>
    /\ UNCHANGED amVars

\* _on_audio_received(audio_data)
OnAudioReceived(chunk) ==
    /\ play_audio_chunk(chunk)
    /\ is_speaking' = TRUE
    /\ UNCHANGED <<main_pc, user_input, async_loop, async_thread, stranded, npc_message, partial_response, last_error_message,
                   speech_mode, speech_enabled, is_listening>>

\* variant of _on_error that never disables speech mode
OnError_KeepsEnabled(error_message) ==
    /\ last_error_message' = error_message
    /\ UNCHANGED <<speech_mode, speech_enabled>>
    /\ UNCHANGED <<main_pc, user_input, async_loop, async_thread, stranded, npc_message, partial_response, is_listening, is_speaking>>
    /\ UNCHANGED amVars

\* _on_error(error_message)
OnError(error_message) ==
    /\ last_error_message' = error_message
    /\ IF Contains(BufferTooSmall, Lower(error_message))
       THEN UNCHANGED <<speech_mode, speech_enabled>>
       ELSE IF Contains(CancellationFailed, Lower(error_message))
       THEN UNCHANGED <<speech_mode, speech_enabled>>
       ELSE /\ speech_mode' = FALSE
            /\ speech_enabled' = FALSE
    /\ UNCHANGED <<main_pc, user_input, async_loop, async_thread, stranded, npc_message, partial_response, is_listening, is_speaking>>
    /\ UNCHANGED amVars

\* _on_session_created()
OnSessionCreated ==
    /\ last_error_message' = <<>>
    /\ UNCHANGED <<main_pc, user_input, async_loop, async_thread, stranded, npc_message, partial_response, speech_mode, speech_enabled,
                   is_listening, is_speaking>>
    /\ UNCHANGED amVars

\* _on_speech_started() / _on_speech_stopped()
OnSpeech(started) ==
    /\ is_listening' = started
    /\ UNCHANGED <<main_pc, user_input, async_loop, async_thread, stranded, npc_message, partial_response, last_error_message,
                   speech_mode, speech_enabled, is_speaking>>
    /\ UNCHANGED amVars

NoCallback ==
    /\ cbs' = <<>>
    /\ UNCHANGED <<dlgVars, amVars>>

----------------------------------------------------------------------------
\* OpenAIRealtimeClient._handle_message(data): one branch per message type.
\* Sets is_processing', is_playing', is_recording', the callbacks' state and
\* cbs' (the callbacks this message invoked).

\* variant of the error branch without the "no active response found" test
HandleError_NoSuppress(m) ==
    /\ is_processing' = FALSE
    /\ is_playing' = FALSE
    /\ UNCHANGED is_recording
    /\ cbs' = <<Cb("error", m.data, FALSE)>>
    /\ OnError(m.data)

HandleError(m) ==
    IF Contains(NoActiveResponseFound, Lower(m.data))
    THEN /\ is_processing' = FALSE
         /\ is_playing' = FALSE
         /\ UNCHANGED is_recording
         /\ NoCallback
    ELSE /\ is_processing' = FALSE
         /\ is_playing' = FALSE
         /\ UNCHANGED is_recording
         /\ cbs' = <<Cb("error", m.data, FALSE)>>
         /\ OnError(m.data)

HandleAudioDelta(m) ==
    IF m.data # <<>> /\ m.ok
    THEN \* base64 decoded, callback invoked, then is_playing = True
         /\ cbs' = <<Cb("audio", m.data, FALSE)>>
         /\ OnAudioReceived([resp |-> m.resp, pcm |-> m.data])
         /\ is_playing' = TRUE
         /\ UNCHANGED <<is_processing, is_recording>>
    ELSE \* no data, or b64decode raised (caught and logged)
         /\ NoCallback
         /\ UNCHANGED <<is_processing, is_playing, is_recording>>

\* variant of the text branches that reports every text as partial
HandleText_AsPartial(m, is_complete) ==
    /\ IF m.data # <<>>
       THEN /\ cbs' = <<Cb("text", m.data, FALSE)>>
            /\ OnTextReceived(m.data, FALSE)
       ELSE NoCallback
    /\ UNCHANGED <<is_processing, is_playing, is_recording>>

\* response.text.delta / response.audio_transcript.delta (is_complete
\* FALSE), response.text.done / response.audio_transcript.done (TRUE)
HandleText(m, is_complete) ==
    /\ IF m.data # <<>>
       THEN /\ cbs' = <<Cb("text", m.data, is_complete)>>
            /\ OnTextReceived(m.data, is_complete)
       ELSE NoCallback
    /\ UNCHANGED <<is_processing, is_playing, is_recording>>

\* variant of the speech branches that also reports to the text callback
HandleSpeech_AlsoText(started) ==
    /\ is_recording' = started
    /\ cbs' = <<Cb(IF started THEN "speech_started" ELSE "speech_stopped", <<>>, FALSE),
                Cb("text", <<>>, FALSE)>>
    /\ OnSpeech(started)
    /\ UNCHANGED <<is_processing, is_playing>>

\* input_audio_buffer.speech_started / speech_stopped
HandleSpeech(started) ==
    /\ is_recording' = started
    /\ cbs' = <<Cb(IF started THEN "speech_started" ELSE "speech_stopped", <<>>, FALSE)>>
    /\ OnSpeech(started)
    /\ UNCHANGED <<is_processing, is_playing>>

HandleResponseDone ==
    /\ is_playing' = FALSE
    /\ is_processing' = FALSE
    /\ UNCHANGED is_recording
    /\ NoCallback

HandleSessionCreated ==
    /\ cbs' = <<Cb("session_created", <<>>, FALSE)>>
    /\ OnSessionCreated
    /\ UNCHANGED <<is_processing, is_playing, is_recording>>

HandleMessage(m) ==
    CASE m.type = "session.created" -> HandleSessionCreated
      [] m.type = "response.audio.delta" -> HandleAudioDelta(m)
      [] m.type = "response.text.delta" -> HandleText(m, FALSE)
      [] m.type = "response.text.done" -> HandleText(m, TRUE)
      [] m.type = "response.audio_transcript.delta" -> HandleText(m, FALSE)
      [] m.type = "response.audio_transcript.done" -> HandleText(m, TRUE)
      [] m.type = "input_audio_buffer.speech_started" -> HandleSpeech(TRUE)
      [] m.type = "input_audio_buffer.speech_stopped" -> HandleSpeech(FALSE)
      [] m.type = "response.done" -> HandleResponseDone
      [] m.type = "error" -> HandleError(m)
      [] OTHER -> \* unhandled message type: logged
                  /\ NoCallback
                  /\ UNCHANGED <<is_processing, is_playing, is_recording>>


----------------------------------------------------------------------------
\* OpenAIRealtimeClient.connect()  (realtime_client.py:72-116)

\* a connection slot is free when no connection object lives in it: never
\* opened, or closed with its receive loop task finished
FreeConn(c) ==
    /\ ws_state[c] # "open"
    /\ listener[c] \in {"none", "exited"}

\* the connection a successful websockets.connect() returns
FreshConn == CHOOSE c \in Conns : FreeConn(c) /\ \A d \in Conns : FreeConn(d) => c <= d

\* connect() is called; the retry loop is entered
ConnectCall ==
    /\ CallerIdle
    /\ conn_pc' = "try"
    /\ attempt' = 0
    /\ conn_ret' = "pending"
    /\ UNCHANGED <<disc_pc, op_pc, listener>>
    /\ UNCHANGED <<clientVars, wireVars, dlgVars, amVars, histVars, xVars>>

\* an attempt succeeds: websocket stored, is_connected set, receive loop
\* task created, True returned
ConnectSucceed ==
    /\ conn_pc = "try"
    /\ attempt < max_retries
    /\ \E c \in Conns : FreeConn(c)
    /\ websocket' = FreshConn
    /\ ws_state' = [ws_state EXCEPT ![FreshConn] = "open"]
    /\ inbound' = [inbound EXCEPT ![FreshConn] = <<>>]
    /\ is_connected' = TRUE
    /\ listener' = [listener EXCEPT ![FreshConn] = "spawned"]
    /\ conn_ret' = "true"
    /\ conn_pc' = "idle"
    /\ Act("connect:true")
    /\ attempt' = 0
    /\ UNCHANGED <<disc_pc, op_pc>>
    /\ UNCHANGED <<stop_event, interrupt_event, is_processing, is_playing,
                   is_recording, current_voice, current_instructions,
                   current_npc_name, npc_voices>>
    /\ UNCHANGED outbound
    /\ UNCHANGED <<op_sent, op_arg, cbs, lastMsg, emitted, calls, loopq>>
    /\ UNCHANGED <<dlgVars, amVars, xVars>>

\* an attempt raises: logged, then asyncio.sleep(2)
ConnectFail ==
    /\ conn_pc = "try"
    /\ attempt < max_retries
    /\ attempt' = attempt + 1
    /\ UNCHANGED <<conn_pc, conn_ret, disc_pc, op_pc, listener>>
    /\ UNCHANGED <<clientVars, wireVars, dlgVars, amVars, histVars, xVars>>

\* variant of the exhausted-retries path that leaves is_connected as it was
ConnectExhausted_KeepsConnected ==
    /\ conn_pc = "try"
    /\ attempt = max_retries
    /\ cbs' = <<Cb("error", ErrConnRetries, FALSE)>>
    /\ OnError(ErrConnRetries)
    /\ conn_ret' = "false"
    /\ conn_pc' = "idle"
    /\ Act("connect:false")
    /\ UNCHANGED <<attempt, disc_pc, op_pc, listener>>
    /\ UNCHANGED clientVars
    /\ UNCHANGED <<op_sent, op_arg, lastMsg, emitted, calls, loopq>>
    /\ UNCHANGED <<wireVars, xVars>>

\* all retries failed: is_connected cleared, error callback, False returned
ConnectExhausted ==
    /\ conn_pc = "try"
    /\ attempt = max_retries
    /\ is_connected' = FALSE
    /\ cbs' = <<Cb("error", ErrConnRetries, FALSE)>>
    /\ OnError(ErrConnRetries)
    /\ conn_ret' = "false"
    /\ conn_pc' = "idle"
    /\ Act("connect:false")
    /\ UNCHANGED <<attempt, disc_pc, op_pc, listener>>
    /\ UNCHANGED <<websocket, stop_event, interrupt_event, is_processing,
                   is_playing, is_recording, current_voice, current_instructions,
                   current_npc_name, npc_voices>>
    /\ UNCHANGED <<op_sent, op_arg, lastMsg, emitted, calls, loopq>>
    /\ UNCHANGED <<wireVars, xVars>>

----------------------------------------------------------------------------
\* OpenAIRealtimeClient.disconnect()  (realtime_client.py:118-131)

\* variant of disconnect() that leaves is_processing
DisconnectCall_KeepsProcessing ==
    /\ CallerIdle
    /\ stop_event' = TRUE
    /\ is_connected' = FALSE
    /\ IF websocket # None
       THEN /\ disc_pc' = "closing"
            /\ ws_state' = [ws_state EXCEPT ![websocket] =
                               IF @ = "open" THEN "closed_ok" ELSE @]
            /\ UNCHANGED <<lastAct, prevAct>>
       ELSE /\ disc_pc' = "idle"
            /\ UNCHANGED ws_state
            /\ Act("disconnect")
    /\ UNCHANGED <<conn_pc, attempt, conn_ret, op_pc, listener>>
    /\ UNCHANGED <<websocket, interrupt_event, is_processing, is_playing,
                   is_recording, current_voice, current_instructions,
                   current_npc_name, npc_voices>>
    /\ UNCHANGED <<inbound, outbound>>
    /\ UNCHANGED <<op_sent, op_arg, cbs, lastMsg, emitted, calls, loopq>>
    /\ UNCHANGED <<dlgVars, amVars, xVars>>

\* stop_event set, flags cleared, websocket.close() awaited
DisconnectCall ==
    /\ CallerIdle
    /\ stop_event' = TRUE
    /\ is_connected' = FALSE
    /\ is_processing' = FALSE
    /\ IF websocket # None
       THEN /\ disc_pc' = "closing"
            /\ ws_state' = [ws_state EXCEPT ![websocket] =
                               IF @ = "open" THEN "closed_ok" ELSE @]
            /\ UNCHANGED <<lastAct, prevAct>>
       ELSE /\ disc_pc' = "idle"
            /\ UNCHANGED ws_state
            /\ Act("disconnect")
    /\ UNCHANGED <<conn_pc, attempt, conn_ret, op_pc, listener>>
    /\ UNCHANGED <<websocket, interrupt_event, is_playing, is_recording,
                   current_voice, current_instructions, current_npc_name, npc_voices>>
    /\ UNCHANGED <<inbound, outbound>>
    /\ UNCHANGED <<op_sent, op_arg, cbs, lastMsg, emitted, calls, loopq>>
    /\ UNCHANGED <<dlgVars, amVars, xVars>>

\* close() returned (or raised and was logged): websocket = None
DisconnectDone ==
    /\ disc_pc = "closing"
    /\ websocket' = None
    /\ disc_pc' = "idle"
    /\ Act("disconnect")
    /\ UNCHANGED <<conn_pc, attempt, conn_ret, op_pc, listener>>
    /\ UNCHANGED <<is_connected, stop_event, interrupt_event, is_processing,
                   is_playing, is_recording, current_voice, current_instructions,
                   current_npc_name, npc_voices>>
    /\ UNCHANGED <<op_sent, op_arg, cbs, lastMsg, emitted, calls, loopq>>
    /\ UNCHANGED <<wireVars, dlgVars, amVars, xVars>>

----------------------------------------------------------------------------
\* OpenAIRealtimeClient._listen_for_messages()  (realtime_client.py:307-331)

\* handling the message raises before any assignment: _handle_message
\* calls data.get on something that is not a dict, or the text callback
\* appends a partial text that is not a str to _partial_response
Raises(m) ==
    \/ m.type = NotAnObject
    \/ /\ m.type \in {"response.text.delta", "response.audio_transcript.delta"}
       /\ m.data # <<>>
       /\ ~m.ok

\* the callbacks entered before the exception
CalledBeforeRaise(m) ==
    IF m.type = NotAnObject THEN <<>> ELSE <<Cb("text", m.data, FALSE)>>

\* variant in which a message that cannot be handled ends the receive loop
NotHandled_EndsLoop(c, why) ==
    /\ Act(why)
    /\ listener' = [listener EXCEPT ![c] = "exited"]
    /\ is_connected' = FALSE

\* the try around json.loads and _handle_message: the exception is logged
\* and the loop takes the next message
NotHandled(c, why) ==
    /\ Act(why)
    /\ UNCHANGED <<listener, is_connected>>

\* the task created by connect() starts running
ListenerStart(c) ==
    /\ listener[c] = "spawned"
    /\ listener' = [listener EXCEPT ![c] =
                       IF websocket = None THEN "exited" ELSE "running"]
    /\ UNCHANGED <<conn_pc, attempt, conn_ret, disc_pc, op_pc>>
    /\ UNCHANGED <<clientVars, wireVars, dlgVars, amVars, histVars, xVars>>

\* `async for message in self.websocket` yields the next message
ListenerRecv(c) ==
    /\ listener[c] = "running"
    /\ inbound[c] # <<>>
    /\ inbound' = [inbound EXCEPT ![c] = Tail(@)]
    /\ lastMsg' = Head(inbound[c])
    /\ IF stop_event
       THEN \* break: the message is dropped and the loop ends
            /\ listener' = [listener EXCEPT ![c] = "exited"]
            /\ UNCHANGED is_connected
            /\ Act("recv:break")
            /\ cbs' = <<>>
            /\ UNCHANGED <<is_processing, is_playing, is_recording>>
            /\ UNCHANGED <<dlgVars, amVars>>
       ELSE IF Head(inbound[c]).type = Malformed
       THEN \* json.JSONDecodeError: logged
            /\ NotHandled(c, "recv:undecodable")
            /\ cbs' = <<>>
            /\ UNCHANGED <<is_processing, is_playing, is_recording>>
            /\ UNCHANGED <<dlgVars, amVars>>
       ELSE IF Raises(Head(inbound[c]))
       THEN \* `except Exception` inside the loop: logged
            /\ NotHandled(c, "recv:raised")
            /\ cbs' = CalledBeforeRaise(Head(inbound[c]))
            /\ UNCHANGED <<is_processing, is_playing, is_recording>>
            /\ UNCHANGED <<dlgVars, amVars>>
       ELSE /\ HandleMessage(Head(inbound[c]))
            /\ Act("recv:handled")
            /\ UNCHANGED <<listener, is_connected>>
    /\ UNCHANGED <<conn_pc, attempt, conn_ret, disc_pc, op_pc>>
    /\ UNCHANGED <<websocket, stop_event, interrupt_event,
                   current_voice, current_instructions, current_npc_name, npc_voices>>
    /\ UNCHANGED <<ws_state, outbound>>
    /\ UNCHANGED <<op_sent, op_arg, emitted, calls, loopq>>
    /\ UNCHANGED xVars

\* the iteration ends: silently after a normal close, with
\* ConnectionClosed (is_connected = False) after an abnormal one
ListenerClosed(c) ==
    /\ listener[c] = "running"
    /\ inbound[c] = <<>>
    /\ ws_state[c] \in {"closed_ok", "closed_err"}
    /\ listener' = [listener EXCEPT ![c] = "exited"]
    /\ is_connected' = IF ws_state[c] = "closed_err" THEN FALSE ELSE is_connected
    /\ UNCHANGED <<conn_pc, attempt, conn_ret, disc_pc, op_pc>>
    /\ UNCHANGED <<websocket, stop_event, interrupt_event, is_processing,
                   is_playing, is_recording, current_voice, current_instructions,
                   current_npc_name, npc_voices>>
    /\ UNCHANGED <<wireVars, dlgVars, amVars, histVars, xVars>>

----------------------------------------------------------------------------
\* Environment: the remote service and the transport.

\* the service sends message m on open connection c
ServerEmit(c, m) ==
    /\ ws_state[c] = "open"
    /\ emitted < MaxEmit
    /\ emitted' = emitted + 1
    /\ inbound' = [inbound EXCEPT ![c] = Append(@, m)]
    /\ UNCHANGED <<ws_state, outbound>>
    /\ UNCHANGED <<lastAct, prevAct, op_sent, op_arg, cbs, lastMsg, calls, loopq>>
    /\ UNCHANGED <<clientVars, coVars, dlgVars, amVars, xVars>>

\* the service streams two text responses one after the other: the deltas
\* of a response, then its done event with the whole text
TextStream ==
    << In("response.text.delta", <<"a">>, TRUE, 1),
       In("response.text.delta", <<"b">>, TRUE, 1),
       In("response.text.done", <<"a", "b">>, TRUE, 1),
       In("response.audio_transcript.delta", <<"c">>, TRUE, 2),
       In("response.audio_transcript.delta", <<"d">>, TRUE, 2),
       In("response.audio_transcript.done", <<"c", "d">>, TRUE, 2) >>

\* the service sends the next event of the stream on open connection c
ServerStream(c) ==
    /\ ws_state[c] = "open"
    /\ emitted < Len(TextStream)
    /\ emitted' = emitted + 1
    /\ inbound' = [inbound EXCEPT ![c] = Append(@, TextStream[emitted + 1])]
    /\ UNCHANGED <<ws_state, outbound>>
    /\ UNCHANGED <<lastAct, prevAct, op_sent, op_arg, cbs, lastMsg, calls, loopq>>
    /\ UNCHANGED <<clientVars, coVars, dlgVars, amVars, xVars>>

\* the connection is closed by the peer (normally) or lost (abnormally)
TransportClose(c, how) ==
    /\ ws_state[c] = "open"
    /\ emitted < MaxEmit
    /\ emitted' = emitted + 1
    /\ ws_state' = [ws_state EXCEPT ![c] = how]
    /\ UNCHANGED <<inbound, outbound>>
    /\ UNCHANGED <<lastAct, prevAct, op_sent, op_arg, cbs, lastMsg, calls, loopq>>
    /\ UNCHANGED <<clientVars, coVars, dlgVars, amVars, xVars>>


----------------------------------------------------------------------------
\* Client operations, each awaited by its caller.  A step runs from one
\* await to the next; `await websocket.send(m)` writes m before it yields.

CallStart(arg) ==
    /\ CallerIdle
    /\ calls < MaxCalls
    /\ calls' = calls + 1
    /\ op_arg' = arg
    /\ UNCHANGED loopq

\* the coroutine returns with outcome `a`
Return(a) ==
    /\ op_pc' = "idle"
    /\ Act(a)

\* variant of configure_session that stores the voice, the instructions
\* and the persona before it tests the connection
configure_session_StoresFirst(voice, instructions, npc) ==
    /\ current_voice' = voice
    /\ current_instructions' = instructions
    /\ current_npc_name' = npc
    /\ UNCHANGED npc_voices
    /\ IF is_connected /\ CanSend
       THEN /\ outbound' = Append(outbound, Out("session.update", <<voice, instructions>>))
            /\ op_sent' = <<"session.update">>
            /\ Return("configure_session:true")
       ELSE /\ UNCHANGED outbound
            /\ op_sent' = <<>>
            /\ Return("configure_session:false")
    /\ UNCHANGED <<conn_pc, attempt, conn_ret, disc_pc, listener>>
    /\ UNCHANGED <<is_connected, websocket, stop_event, interrupt_event,
                   is_processing, is_playing, is_recording>>
    /\ UNCHANGED <<ws_state, inbound>>
    /\ UNCHANGED <<cbs, lastMsg, emitted>>
    /\ UNCHANGED <<dlgVars, amVars, xVars>>

\* configure_session(voice, instructions, npc_name)
\* (realtime_client.py:133-176); the instructions travel with the voice
configure_session(voice, instructions, npc) ==
    /\ IF ~is_connected
       THEN /\ Return("configure_session:false")
            /\ op_sent' = <<>>
            /\ UNCHANGED <<current_voice, current_instructions,
                           current_npc_name, npc_voices, outbound>>
       ELSE /\ current_voice' = voice
            /\ current_instructions' = instructions
            /\ current_npc_name' = npc
            /\ UNCHANGED npc_voices
            /\ IF CanSend
               THEN /\ outbound' = Append(outbound, Out("session.update", <<voice, instructions>>))
                    /\ op_sent' = <<"session.update">>
                    /\ Return("configure_session:true")
               ELSE \* websocket is None, or send raised
                    /\ UNCHANGED outbound
                    /\ op_sent' = <<>>
                    /\ Return("configure_session:false")
    /\ UNCHANGED <<conn_pc, attempt, conn_ret, disc_pc, listener>>
    /\ UNCHANGED <<is_connected, websocket, stop_event, interrupt_event,
                   is_processing, is_playing, is_recording>>
    /\ UNCHANGED <<ws_state, inbound>>
    /\ UNCHANGED <<cbs, lastMsg, emitted>>
    /\ UNCHANGED <<dlgVars, amVars, xVars>>

\* send_audio_chunk(audio_data)  (realtime_client.py:178-196)
send_audio_chunk(chunk) ==
    /\ IF ~is_connected \/ websocket = None
       THEN /\ Return("send_audio_chunk:noop")
            /\ op_sent' = <<>>
            /\ cbs' = <<>>
            /\ UNCHANGED <<outbound, dlgVars, amVars>>
       ELSE IF CanSend
       THEN /\ outbound' = Append(outbound, Out("input_audio_buffer.append", chunk))
            /\ op_sent' = <<"input_audio_buffer.append">>
            /\ cbs' = <<>>
            /\ Return("send_audio_chunk:sent")
            /\ UNCHANGED <<dlgVars, amVars>>
       ELSE \* send raised: error callback
            /\ UNCHANGED outbound
            /\ op_sent' = <<>>
            /\ cbs' = <<Cb("error", ErrSendAudio, FALSE)>>
            /\ OnError(ErrSendAudio)
            /\ Return("send_audio_chunk:failed")
    /\ UNCHANGED <<conn_pc, attempt, conn_ret, disc_pc, listener>>
    /\ UNCHANGED <<clientVars, ws_state, inbound, lastMsg, emitted, xVars>>

\* commit_audio_buffer()  (realtime_client.py:198-221), up to the send
commit_audio_buffer ==
    /\ IF ~is_connected \/ websocket = None
       THEN /\ Return("commit_audio_buffer:not_connected")
            /\ op_sent' = <<>>
            /\ cbs' = <<Cb("error", ErrCommitNotConnected, FALSE)>>
            /\ OnError(ErrCommitNotConnected)
            /\ UNCHANGED outbound
       ELSE IF CanSend
       THEN /\ outbound' = Append(outbound, Out("input_audio_buffer.commit", <<>>))
            /\ op_sent' = <<"input_audio_buffer.commit">>
            /\ op_pc' = "commit_sent"
            /\ UNCHANGED <<lastAct, prevAct, cbs, dlgVars, amVars>>
       ELSE \* send raised: error callback
            /\ UNCHANGED outbound
            /\ op_sent' = <<>>
            /\ cbs' = <<Cb("error", ErrCommitFailed, FALSE)>>
            /\ OnError(ErrCommitFailed)
            /\ Return("commit_audio_buffer:failed")
    /\ UNCHANGED <<conn_pc, attempt, conn_ret, disc_pc, listener>>
    /\ UNCHANGED <<clientVars, ws_state, inbound, lastMsg, emitted, xVars>>

\* variant of the end of commit_audio_buffer() that leaves is_processing
commit_audio_buffer_sent_NoFlag ==
    /\ op_pc = "commit_sent"
    /\ Return("commit_audio_buffer:ok")
    /\ UNCHANGED <<conn_pc, attempt, conn_ret, disc_pc, listener>>
    /\ UNCHANGED clientVars
    /\ UNCHANGED <<op_sent, op_arg, cbs, lastMsg, emitted, calls, loopq>>
    /\ UNCHANGED <<wireVars, dlgVars, amVars, xVars>>

\* commit_audio_buffer() after the send: is_processing = True
commit_audio_buffer_sent ==
    /\ op_pc = "commit_sent"
    /\ is_processing' = TRUE
    /\ Return("commit_audio_buffer:ok")
    /\ UNCHANGED <<conn_pc, attempt, conn_ret, disc_pc, listener>>
    /\ UNCHANGED <<is_connected, websocket, stop_event, interrupt_event,
                   is_playing, is_recording, current_voice, current_instructions,
                   current_npc_name, npc_voices>>
    /\ UNCHANGED <<op_sent, op_arg, cbs, lastMsg, emitted, calls, loopq>>
    /\ UNCHANGED <<wireVars, dlgVars, amVars, xVars>>

\* interrupt_response()  (realtime_client.py:273-292), up to the send
interrupt_response ==
    /\ op_sent' = IF is_connected /\ CanSend THEN <<"response.cancel">> ELSE <<>>
    /\ IF ~is_connected \/ websocket = None
       THEN /\ Return("interrupt_response:noop")
            /\ UNCHANGED outbound
       ELSE IF CanSend
       THEN /\ outbound' = Append(outbound, Out("response.cancel", <<>>))
            /\ op_pc' = "interrupt_sent"
            /\ UNCHANGED <<lastAct, prevAct>>
       ELSE \* send raised: logged
            /\ UNCHANGED outbound
            /\ Return("interrupt_response:failed")
    /\ UNCHANGED <<conn_pc, attempt, conn_ret, disc_pc, listener>>
    /\ UNCHANGED <<clientVars, ws_state, inbound, cbs, lastMsg, emitted>>
    /\ UNCHANGED <<dlgVars, amVars, xVars>>

\* variant of the tail of interrupt_response() that clears only is_processing
interrupt_response_sent_KeepsPlaying ==
    /\ op_pc = "interrupt_sent"
    /\ interrupt_event' = TRUE
    /\ is_processing' = FALSE
    /\ Return("interrupt_response:ok")
    /\ UNCHANGED <<conn_pc, attempt, conn_ret, disc_pc, listener>>
    /\ UNCHANGED <<is_connected, websocket, stop_event, is_playing, is_recording,
                   current_voice, current_instructions, current_npc_name, npc_voices>>
    /\ UNCHANGED <<op_sent, op_arg, cbs, lastMsg, emitted, calls, loopq>>
    /\ UNCHANGED <<wireVars, dlgVars, amVars, xVars>>

\* interrupt_response() after the send: interrupt_event.set(), flags cleared
interrupt_response_sent ==
    /\ op_pc = "interrupt_sent"
    /\ interrupt_event' = TRUE
    /\ is_processing' = FALSE
    /\ is_playing' = FALSE
    /\ Return("interrupt_response:ok")
    /\ UNCHANGED <<conn_pc, attempt, conn_ret, disc_pc, listener>>
    /\ UNCHANGED <<is_connected, websocket, stop_event, is_recording,
                   current_voice, current_instructions, current_npc_name, npc_voices>>
    /\ UNCHANGED <<op_sent, op_arg, cbs, lastMsg, emitted, calls, loopq>>
    /\ UNCHANGED <<wireVars, dlgVars, amVars, xVars>>


----------------------------------------------------------------------------
\* send_text_message(text, npc_name, preview_mode)
\* (realtime_client.py:223-271)

\* `if self.websocket: await self.websocket.send(conversation.item.create)`
\* given the messages this call has sent so far
TextItem(sent) ==
    IF CanSend
    THEN /\ outbound' = Append(outbound, Out("conversation.item.create", <<>>))
         /\ op_sent' = Append(sent, "conversation.item.create")
         /\ op_pc' = "text_resp"
         /\ UNCHANGED <<lastAct, prevAct>>
    ELSE \* websocket is None (logged), or send raised (logged)
         /\ UNCHANGED outbound
         /\ op_sent' = sent
         /\ Return("send_text_message:failed")

\* variant of send_text_message that never reconfigures the session
send_text_message_NoReconfigure(npc_name) ==
    /\ IF ~is_connected \/ websocket = None
       THEN /\ Return("send_text_message:noop")
            /\ op_sent' = <<>>
            /\ UNCHANGED outbound
       ELSE TextItem(<<>>)
    /\ UNCHANGED <<conn_pc, attempt, conn_ret, disc_pc, listener>>
    /\ UNCHANGED clientVars
    /\ UNCHANGED <<ws_state, inbound>>
    /\ UNCHANGED <<cbs, lastMsg, emitted>>
    /\ UNCHANGED <<dlgVars, amVars, xVars>>

\* the call, up to its first await: the early return, the session
\* reconfiguration for a known persona, else the user message item
send_text_message(npc_name) ==
    /\ IF ~is_connected \/ websocket = None
       THEN /\ Return("send_text_message:noop")
            /\ op_sent' = <<>>
            /\ UNCHANGED <<current_voice, current_instructions,
                           current_npc_name, npc_voices, outbound>>
       ELSE IF npc_name \in ClientPersonas
       THEN \* await self.configure_session(voice, instructions, npc_name)
            /\ current_voice' = ClientVoice(npc_name)
            /\ current_instructions' = ClientInstructions(npc_name)
            /\ current_npc_name' = npc_name
            /\ UNCHANGED npc_voices
            /\ IF CanSend
               THEN /\ outbound' = Append(outbound,
                           Out("session.update",
                               <<ClientVoice(npc_name), ClientInstructions(npc_name)>>))
                    /\ op_sent' = <<"session.update">>
               ELSE /\ UNCHANGED outbound
                    /\ op_sent' = <<>>
            /\ op_pc' = "text_item"
            /\ UNCHANGED <<lastAct, prevAct>>
       ELSE /\ TextItem(<<>>)
            /\ UNCHANGED <<current_voice, current_instructions, current_npc_name, npc_voices>>
    /\ UNCHANGED <<conn_pc, attempt, conn_ret, disc_pc, listener>>
    /\ UNCHANGED <<is_connected, websocket, stop_event, interrupt_event,
                   is_processing, is_playing, is_recording>>
    /\ UNCHANGED <<ws_state, inbound>>
    /\ UNCHANGED <<cbs, lastMsg, emitted>>
    /\ UNCHANGED <<dlgVars, amVars, xVars>>

\* after configure_session returned: the user message item
send_text_message_item ==
    /\ op_pc = "text_item"
    /\ TextItem(op_sent)
    /\ UNCHANGED <<conn_pc, attempt, conn_ret, disc_pc, listener>>
    /\ UNCHANGED <<clientVars, ws_state, inbound>>
    /\ UNCHANGED <<op_arg, cbs, lastMsg, emitted, calls, loopq>>
    /\ UNCHANGED <<dlgVars, amVars, xVars>>

\* after the item was sent: response.create with current_instructions
send_text_message_response ==
    /\ op_pc = "text_resp"
    /\ IF CanSend
       THEN /\ outbound' = Append(outbound, Out("response.create", <<current_instructions>>))
            /\ op_sent' = Append(op_sent, "response.create")
            /\ op_pc' = "text_flag"
            /\ UNCHANGED <<lastAct, prevAct>>
       ELSE /\ UNCHANGED <<outbound, op_sent>>
            /\ Return("send_text_message:failed")
    /\ UNCHANGED <<conn_pc, attempt, conn_ret, disc_pc, listener>>
    /\ UNCHANGED <<clientVars, ws_state, inbound>>
    /\ UNCHANGED <<op_arg, cbs, lastMsg, emitted, calls, loopq>>
    /\ UNCHANGED <<dlgVars, amVars, xVars>>

\* after response.create was sent: is_processing = True
send_text_message_sent ==
    /\ op_pc = "text_flag"
    /\ is_processing' = TRUE
    /\ Return("send_text_message:ok")
    /\ UNCHANGED <<conn_pc, attempt, conn_ret, disc_pc, listener>>
    /\ UNCHANGED <<is_connected, websocket, stop_event, interrupt_event,
                   is_playing, is_recording, current_voice,
                   current_instructions, current_npc_name, npc_voices>>
    /\ UNCHANGED <<op_sent, op_arg, cbs, lastMsg, emitted, calls, loopq>>
    /\ UNCHANGED <<wireVars, dlgVars, amVars, xVars>>

\* enhanced_dialogue_system.py:78-91  npc_voices.get(npc, npc_voices["HR"])
DialogueVoice(npc) ==
    CASE npc = "HR"  -> "alloy"
      [] npc = "CEO" -> "echo"
      [] OTHER       -> "alloy"

DialogueInstructions(npc) ==
    CASE npc = "HR"  -> "dialogue:HR"
      [] npc = "CEO" -> "dialogue:CEO"
      [] OTHER       -> "dialogue:HR"

----------------------------------------------------------------------------
\* The event loop thread of the orchestrator (enhanced_dialogue_system.py
\* 268-283): coroutines posted with run_coroutine_threadsafe start in the
\* order they were posted.

RunTask ==
    /\ loopq # <<>>
    /\ Head(loopq).op \in {"send_audio_chunk", "commit_audio_buffer",
                          "interrupt_response", "configure_session",
                          "send_text_message"}
    /\ CallerIdle
    /\ loopq' = Tail(loopq)
    /\ op_arg' = ""
    /\ UNCHANGED calls
    /\ LET t == Head(loopq) IN
       CASE t.op = "send_audio_chunk" -> send_audio_chunk(t.arg)
         [] t.op = "commit_audio_buffer" -> commit_audio_buffer
         [] t.op = "interrupt_response" -> interrupt_response
         [] t.op = "configure_session" ->
               configure_session(DialogueVoice(t.arg), DialogueInstructions(t.arg), t.arg)
         [] t.op = "send_text_message" -> send_text_message(t.arg)

----------------------------------------------------------------------------
\* AudioManager: capture and playback (audio_manager.py)

\* variant of clear_queues that empties only the output queue
clear_queues_OutputOnly ==
    /\ output_queue' = <<>>
    /\ UNCHANGED input_queue

\* clear_queues() (audio_manager.py:223-235): both queues are emptied
clear_queues ==
    /\ input_queue' = <<>>
    /\ output_queue' = <<>>

\* stop_playback(): flags, then the worker thread is joined
stop_playback ==
    IF am_is_playing
    THEN /\ am_is_playing' = FALSE
         /\ should_stop' = TRUE
         /\ pb_worker' = "none"
         /\ UNCHANGED pb_stale
         /\ pb_buffer' = <<>>
    ELSE UNCHANGED <<am_is_playing, should_stop, pb_worker, pb_stale, pb_buffer>>

\* variant of the clamp without the lower bound
Clamp_NoLowerBound(v) == IF v > 100 THEN 100 ELSE v

\* the volume a set_volumes argument is clamped to, in percent
Clamp(v) == IF v < 0 THEN 0 ELSE IF v > 100 THEN 100 ELSE v

\* set_volumes(input_volume, output_volume) (audio_manager.py:237-242); an
\* argument is <<v>>, or <<>> when it is omitted (None)
set_volumes(in_vol, out_vol) ==
    /\ input_volume' = IF in_vol = <<>> THEN input_volume ELSE Clamp(in_vol[1])
    /\ output_volume' = IF out_vol = <<>> THEN output_volume ELSE Clamp(out_vol[1])
    /\ UNCHANGED <<input_queue, input_device_ok, output_device_ok, pb_buffer, outdata>>
    /\ UNCHANGED <<am_is_recording, audio_buffer, accepted, discarded, thr_pc,
                   acc, toggles, pushed, drained, played, interrupted>>
    /\ UNCHANGED <<clientVars, wireVars, coVars, dlgVars, amVars, histVars>>

\* start_recording() (audio_manager.py:49-98): is_recording is set, then
\* the input stream is opened; when that raises, is_recording is cleared
start_recording ==
    /\ IF am_is_recording
       THEN /\ UNCHANGED <<am_is_recording, should_stop>>
            /\ Act("start_recording:noop")
       ELSE /\ am_is_recording' = input_device_ok
            /\ should_stop' = FALSE
            /\ Act(IF input_device_ok THEN "start_recording:ok"
                   ELSE "start_recording:failed")
    /\ UNCHANGED <<am_is_playing, output_queue, pb_worker, pb_stale>>
    /\ UNCHANGED <<audio_buffer, accepted, discarded, thr_pc, acc, toggles,
                   pushed, drained, played, interrupted, engVars>>
    /\ UNCHANGED <<op_sent, op_arg, cbs, lastMsg, emitted, calls, loopq>>
    /\ UNCHANGED <<clientVars, wireVars, coVars, dlgVars>>

\* stop_recording() (audio_manager.py:100-112)
stop_recording ==
    /\ am_is_recording
    /\ am_is_recording' = FALSE
    /\ Act("stop_recording")
    /\ UNCHANGED <<audio_buffer, accepted, discarded, thr_pc, acc, toggles,
                   pushed, drained, played, interrupted, engVars>>
    /\ UNCHANGED <<op_sent, op_arg, cbs, lastMsg, emitted, calls, loopq>>
    /\ UNCHANGED <<clientVars, wireVars, coVars, dlgVars, amVars>>

\* start_playback() called on the audio engine
StartPlayback ==
    /\ start_playback
    /\ Act("start_playback")
    /\ UNCHANGED output_queue
    /\ UNCHANGED <<op_sent, op_arg, cbs, lastMsg, emitted, calls, loopq>>
    /\ UNCHANGED <<clientVars, wireVars, coVars, dlgVars, xVars>>

\* play_audio_chunk(audio_data) called on the audio engine
PlayAudioChunk(chunk) ==
    /\ play_audio_chunk(chunk)
    /\ Act("play_audio_chunk")
    /\ UNCHANGED <<op_sent, op_arg, cbs, lastMsg, emitted, calls, loopq>>
    /\ UNCHANGED <<clientVars, wireVars, coVars, dlgVars, xVars>>

\* stop_playback() called on the audio engine
StopPlayback ==
    /\ am_is_playing
    /\ stop_playback
    /\ Act("stop_playback")
    /\ UNCHANGED output_queue
    /\ UNCHANGED <<input_queue, input_volume, output_volume, input_device_ok,
                   output_device_ok, outdata>>
    /\ UNCHANGED <<am_is_recording, audio_buffer, accepted, discarded, thr_pc,
                   acc, toggles, pushed, drained, played, interrupted>>
    /\ UNCHANGED <<op_sent, op_arg, cbs, lastMsg, emitted, calls, loopq>>
    /\ UNCHANGED <<clientVars, wireVars, coVars, dlgVars>>

\* a call that returns at its first test: nothing but the trace changes
EarlyReturn(a) ==
    /\ Act(a)
    /\ UNCHANGED <<op_sent, op_arg, cbs, lastMsg, emitted, calls, loopq>>
    /\ UNCHANGED <<clientVars, wireVars, coVars, dlgVars, amVars, xVars>>

\* variant of stop_recording() that does nothing when it is recording either
StopRecordingCall_NeverStops == EarlyReturn("stop_recording:noop")

\* stop_recording() called in any state (audio_manager.py:100-112): it
\* returns at once when the engine is not recording
StopRecordingCall ==
    IF am_is_recording THEN stop_recording ELSE EarlyReturn("stop_recording:noop")

\* stop_playback() called in any state (audio_manager.py:196-208): it
\* returns at once when the engine is not playing; otherwise the flags are
\* set and the worker is joined for at most one second.  A worker that
\* has not closed its stream and returned by then is left running, and
\* output_thread is set to None all the same
StopPlaybackCall ==
    /\ IF ~am_is_playing
       THEN EarlyReturn("stop_playback:noop")
       ELSE /\ am_is_playing' = FALSE
            /\ should_stop' = TRUE
            /\ pb_worker' = "none"
            /\ \/ /\ pb_stale' = pb_stale
                  /\ pb_buffer' = <<>>
                  /\ Act("stop_playback")
               \/ /\ pb_worker = "running"
                  /\ pb_stale < MaxStale
                  /\ pb_stale' = pb_stale + 1
                  /\ UNCHANGED pb_buffer
                  /\ Act("stop_playback:timeout")
            /\ UNCHANGED output_queue
            /\ UNCHANGED <<input_queue, input_volume, output_volume,
                           input_device_ok, output_device_ok, outdata>>
            /\ UNCHANGED <<am_is_recording, audio_buffer, accepted, discarded,
                           thr_pc, acc, toggles, pushed, drained, played,
                           interrupted>>
            /\ UNCHANGED <<op_sent, op_arg, cbs, lastMsg, emitted, calls, loopq>>
            /\ UNCHANGED <<clientVars, wireVars, coVars, dlgVars>>

\* a worker that was not joined tests `self.is_playing and not
\* self.should_stop` (audio_manager.py:177-183), finds it false, closes
\* its stream and returns
WorkerExit ==
    /\ pb_stale > 0
    /\ ~am_is_playing \/ should_stop
    /\ pb_stale' = pb_stale - 1
    /\ UNCHANGED <<am_is_playing, should_stop, output_queue, pb_worker>>
    /\ UNCHANGED <<clientVars, wireVars, coVars, dlgVars, histVars, xVars>>

\* get_npc_voice_config(npc_name) (realtime_client.py:294-296):
\* self.npc_voices.get(npc_name, self.npc_voices["HR"])
get_npc_voice_config(npc_name) ==
    IF npc_name \in DOMAIN npc_voices THEN npc_voices[npc_name] ELSE npc_voices["HR"]

\* variant of set_npc_voice_config that stores no sample
set_npc_voice_config_NoSample(npc_name, voice, instructions, sample) ==
    /\ npc_voices' = [p \in DOMAIN npc_voices \cup {npc_name} |->
                         IF p = npc_name THEN Profile(voice, instructions, "")
                         ELSE npc_voices[p]]
    /\ Act("set_npc_voice_config")
    /\ UNCHANGED <<is_connected, websocket, stop_event, interrupt_event,
                   is_processing, is_playing, is_recording,
                   current_voice, current_instructions, current_npc_name>>
    /\ UNCHANGED <<op_sent, op_arg, cbs, lastMsg, emitted, calls, loopq>>
    /\ UNCHANGED <<wireVars, coVars, dlgVars, amVars, xVars>>

\* set_npc_voice_config(npc_name, voice, instructions, sample)
\* (realtime_client.py:298-305): the entry of npc_name is replaced or added
set_npc_voice_config(npc_name, voice, instructions, sample) ==
    /\ npc_voices' = [p \in DOMAIN npc_voices \cup {npc_name} |->
                         IF p = npc_name THEN Profile(voice, instructions, sample)
                         ELSE npc_voices[p]]
    /\ Act("set_npc_voice_config")
    /\ UNCHANGED <<is_connected, websocket, stop_event, interrupt_event,
                   is_processing, is_playing, is_recording,
                   current_voice, current_instructions, current_npc_name>>
    /\ UNCHANGED <<op_sent, op_arg, cbs, lastMsg, emitted, calls, loopq>>
    /\ UNCHANGED <<wireVars, coVars, dlgVars, amVars, xVars>>

\* an audio device becomes unavailable or available again (environment)
DeviceChange ==
    /\ \/ input_device_ok' = ~input_device_ok /\ UNCHANGED output_device_ok
       \/ output_device_ok' = ~output_device_ok /\ UNCHANGED input_device_ok
    /\ UNCHANGED <<input_queue, input_volume, output_volume, pb_buffer, outdata>>
    /\ UNCHANGED <<am_is_recording, audio_buffer, accepted, discarded, thr_pc,
                   acc, toggles, pushed, drained, played, interrupted>>
    /\ UNCHANGED <<clientVars, wireVars, coVars, dlgVars, amVars, histVars>>

\* (indata * input_volume * 32767).astype(np.int16), for a frame given by
\* its samples at full scale (indata * 32767): the conversion truncates
\* towards zero
ToInt16(indata, vol) ==
    [i \in 1..Len(indata) |->
        IF indata[i] >= 0 THEN (indata[i] * vol) \div 100
        ELSE 0 - ((0 - indata[i]) * vol) \div 100]

\* the input stream's audio_callback (audio_manager.py:61-82) with
\* _on_audio_input (enhanced_dialogue_system.py:220-236), for a frame
\* indata: the frame is scaled by input_volume, converted to 16-bit
\* samples and put on input_queue; the amplified frame is discarded when
\* its RMS is below 0.0001, and put on audio_buffer otherwise
audio_callback(indata) ==
    /\ am_is_recording
    /\ LET audio_int16 == ToInt16(indata, input_volume) IN
       /\ input_queue' = Append(input_queue, Len(audio_int16))
       /\ IF LowRms(Amplify(audio_int16))
          THEN /\ discarded < MaxDiscarded
               /\ discarded' = discarded + 1
               /\ UNCHANGED <<accepted, audio_buffer, pushed>>
          ELSE /\ accepted < MaxFrames
               /\ accepted' = accepted + 1
               /\ audio_buffer' = Append(audio_buffer, accepted + 1)
               /\ pushed' = Append(pushed, Amplify(audio_int16))
               /\ UNCHANGED discarded
    /\ UNCHANGED <<input_volume, output_volume, input_device_ok,
                   output_device_ok, pb_buffer, outdata>>
    /\ UNCHANGED <<am_is_recording, thr_pc, acc, toggles, drained, played,
                   interrupted>>
    /\ UNCHANGED <<clientVars, wireVars, coVars, dlgVars, amVars, histVars>>

\* get_audio_chunk() (audio_manager.py:216-221): the oldest frame of
\* input_queue, or None
get_audio_chunk ==
    /\ input_queue' = IF input_queue = <<>> THEN <<>> ELSE Tail(input_queue)
    /\ UNCHANGED <<input_volume, output_volume, input_device_ok,
                   output_device_ok, pb_buffer, outdata>>
    /\ UNCHANGED <<am_is_recording, audio_buffer, accepted, discarded, thr_pc,
                   acc, toggles, pushed, drained, played, interrupted>>
    /\ UNCHANGED <<clientVars, wireVars, coVars, dlgVars, amVars, histVars>>

\* the output callback's loop over output_queue: chunks are taken and
\* appended to the buffer while the queue is not empty and the buffer
\* holds fewer samples than the frame asks for
RECURSIVE FillBuffer(_, _, _, _)
FillBuffer(buffer, queue, taken, frames) ==
    IF queue # <<>> /\ Len(buffer) < frames
    THEN FillBuffer(buffer \o Head(queue).pcm, Tail(queue),
                    Append(taken, Head(queue)), frames)
    ELSE [buffer |-> buffer, queue |-> queue, taken |-> taken]

\* a sample of outdata: 0.0, or the 16-bit sample pcm divided by 32767 and
\* multiplied by the output volume
Silence == [pcm |-> 0, volume |-> 0]
ToOutput(pcm, vol) ==
    IF pcm = 0 \/ vol = 0 THEN Silence ELSE [pcm |-> pcm, volume |-> vol]

\* variant of the output frame that writes only the samples the buffer
\* holds when they are fewer than the frame asks for
OutputFrame_Short(buffer, frames, vol) ==
    IF Len(buffer) >= frames
    THEN [i \in 1..frames |-> ToOutput(buffer[i], vol)]
    ELSE [i \in 1..Len(buffer) |-> ToOutput(buffer[i], vol)]

\* the frame the output callback writes to outdata: the first `frames`
\* samples of the buffer when it holds that many, silence otherwise
OutputFrame(buffer, frames, vol) ==
    IF Len(buffer) >= frames
    THEN [i \in 1..frames |-> ToOutput(buffer[i], vol)]
    ELSE [i \in 1..frames |-> Silence]

\* the output stream's audio_callback (audio_manager.py:135-165) asked for
\* `frames` samples: chunks are moved from output_queue to the buffer, then
\* a full frame is written to outdata
playback_callback(frames) ==
    /\ pb_worker = "running"
    /\ LET f == FillBuffer(pb_buffer, output_queue, <<>>, frames) IN
       /\ output_queue' = f.queue
       /\ played' = played \o f.taken
       /\ outdata' = OutputFrame(f.buffer, frames, output_volume)
       /\ pb_buffer' = IF Len(f.buffer) >= frames
                       THEN SubSeq(f.buffer, frames + 1, Len(f.buffer))
                       ELSE f.buffer
    /\ UNCHANGED <<am_is_playing, should_stop, pb_worker, pb_stale>>
    /\ UNCHANGED <<input_queue, input_volume, output_volume, input_device_ok,
                   output_device_ok>>
    /\ UNCHANGED <<am_is_recording, audio_buffer, accepted, discarded, thr_pc,
                   acc, toggles, pushed, drained, interrupted>>
    /\ UNCHANGED <<clientVars, wireVars, coVars, dlgVars, histVars>>

----------------------------------------------------------------------------
\* EnhancedDialogueSystem: voice mode (enhanced_dialogue_system.py)

\* the slot of the thread _start_speech_mode starts
FreeThread ==
    CHOOSE t \in Threads :
        /\ thr_pc[t] # "running"
        /\ \A u \in Threads : thr_pc[u] # "running" => t <= u

\* audio_to_send: the accumulated frames concatenated
Chunk(a) == [a EXCEPT !.audio = Concatenate(@)]

\* audio_int16: the chunk clipped to 16-bit PCM, as given to
\* send_audio_chunk
Pcm16(chunk) == [chunk EXCEPT !.audio = ClipInt16(@)]

\* variant of the size test that never finds the chunk empty
EmptyChunk_Never(chunk) == FALSE

\* audio_to_send.size == 0
EmptyChunk(chunk) == Len(chunk.audio) = 0

\* variant of the accumulation loop that keeps what it has sent
process_audio_input_NoReset(t) ==
    /\ thr_pc[t] = "running"
    /\ IF ~speech_mode
       THEN /\ thr_pc' = [thr_pc EXCEPT ![t] = "stopped"]
            /\ acc' = [acc EXCEPT ![t] = NoAudio]
            /\ UNCHANGED <<audio_buffer, drained, loopq>>
       ELSE /\ audio_buffer # <<>>
            /\ audio_buffer' = Tail(audio_buffer)
            /\ LET a == Accumulate(acc[t], Head(audio_buffer),
                                   pushed[Head(audio_buffer)])
                   audio_to_send == Chunk(a)
               IN
               IF ~ReachedMinCommit(a.n)
               THEN /\ acc' = [acc EXCEPT ![t] = a]
                    /\ UNCHANGED <<drained, loopq>>
               ELSE IF EmptyChunk(audio_to_send)
               THEN \* "Audio buffer empty, skipping commit"
                    /\ acc' = [acc EXCEPT ![t] = NoAudio]
                    /\ drained' = Append(drained,
                                     [chunk |-> audio_to_send, posted |-> FALSE])
                    /\ UNCHANGED loopq
               ELSE /\ acc' = [acc EXCEPT ![t] = a]
                    /\ drained' = Append(drained,
                                     [chunk |-> audio_to_send, posted |-> is_connected])
                    /\ loopq' = IF is_connected
                                THEN loopq \o <<Task("send_audio_chunk", Pcm16(audio_to_send)),
                                                Task("commit_audio_buffer", NoAudio)>>
                                ELSE loopq
            /\ UNCHANGED thr_pc
    /\ UNCHANGED <<am_is_recording, accepted, discarded, toggles, pushed,
                   played, interrupted, engVars>>
    /\ UNCHANGED <<lastAct, prevAct, op_sent, op_arg, cbs, lastMsg, emitted, calls>>
    /\ UNCHANGED <<clientVars, wireVars, coVars, dlgVars, amVars>>

\* one iteration of the loop of _process_audio_input() (lines 370-411) in
\* thread t: the test of speech_mode, audio_buffer.get, the accumulation
\* and, once min_commit_duration is reached, the concatenation, the skip
\* of an empty chunk, the two coroutines posted while the client is
\* connected, and the reset
process_audio_input(t) ==
    /\ thr_pc[t] = "running"
    /\ IF ~speech_mode
       THEN /\ thr_pc' = [thr_pc EXCEPT ![t] = "stopped"]
            /\ acc' = [acc EXCEPT ![t] = NoAudio]
            /\ UNCHANGED <<audio_buffer, drained, loopq>>
       ELSE /\ audio_buffer # <<>>
            /\ audio_buffer' = Tail(audio_buffer)
            /\ LET a == Accumulate(acc[t], Head(audio_buffer),
                                   pushed[Head(audio_buffer)])
                   audio_to_send == Chunk(a)
               IN
               IF ~ReachedMinCommit(a.n)
               THEN /\ acc' = [acc EXCEPT ![t] = a]
                    /\ UNCHANGED <<drained, loopq>>
               ELSE IF EmptyChunk(audio_to_send)
               THEN \* "Audio buffer empty, skipping commit"
                    /\ acc' = [acc EXCEPT ![t] = NoAudio]
                    /\ drained' = Append(drained,
                                     [chunk |-> audio_to_send, posted |-> FALSE])
                    /\ UNCHANGED loopq
               ELSE /\ acc' = [acc EXCEPT ![t] = NoAudio]
                    /\ drained' = Append(drained,
                                     [chunk |-> audio_to_send, posted |-> is_connected])
                    /\ loopq' = IF is_connected
                                THEN loopq \o <<Task("send_audio_chunk", Pcm16(audio_to_send)),
                                                Task("commit_audio_buffer", NoAudio)>>
                                ELSE loopq
            /\ UNCHANGED thr_pc
    /\ UNCHANGED <<am_is_recording, accepted, discarded, toggles, pushed,
                   played, interrupted, engVars>>
    /\ UNCHANGED <<lastAct, prevAct, op_sent, op_arg, cbs, lastMsg, emitted, calls>>
    /\ UNCHANGED <<clientVars, wireVars, coVars, dlgVars, amVars>>

\* The same loop, a statement at a time.  process_audio_input(t) is the
\* test of speech_mode followed at once by a successful audio_buffer.get;
\* the steps below let the other threads run between the two.

\* variant of the loop test that never leaves the loop
process_audio_input_test_IgnoresMode(t) ==
    /\ thr_pc[t] = "running"
    /\ thr_pc' = [thr_pc EXCEPT ![t] = "getting"]
    /\ UNCHANGED <<am_is_recording, audio_buffer, accepted, discarded, acc,
                   toggles, pushed, drained, played, interrupted, engVars>>
    /\ UNCHANGED <<clientVars, wireVars, coVars, dlgVars, amVars, histVars>>

\* `while self.speech_mode:` (line 371): the thread returns, or enters
\* audio_buffer.get(timeout=0.1)
process_audio_input_test(t) ==
    /\ thr_pc[t] = "running"
    /\ IF ~speech_mode
       THEN /\ thr_pc' = [thr_pc EXCEPT ![t] = "stopped"]
            /\ acc' = [acc EXCEPT ![t] = NoAudio]
       ELSE /\ thr_pc' = [thr_pc EXCEPT ![t] = "getting"]
            /\ UNCHANGED acc
    /\ UNCHANGED <<am_is_recording, audio_buffer, accepted, discarded,
                   toggles, pushed, drained, played, interrupted, engVars>>
    /\ UNCHANGED <<clientVars, wireVars, coVars, dlgVars, amVars, histVars>>

\* audio_buffer.get returned a frame (lines 373-406): the accumulation
\* and, once min_commit_duration is reached, the chunk, the skip of an
\* empty chunk, the two coroutines posted while the client is connected,
\* and the reset; then back to the loop test
process_audio_input_get(t) ==
    /\ thr_pc[t] = "getting"
    /\ audio_buffer # <<>>
    /\ audio_buffer' = Tail(audio_buffer)
    /\ thr_pc' = [thr_pc EXCEPT ![t] = "running"]
    /\ LET a == Accumulate(acc[t], Head(audio_buffer),
                           pushed[Head(audio_buffer)])
           audio_to_send == Chunk(a)
       IN
       IF ~ReachedMinCommit(a.n)
       THEN /\ acc' = [acc EXCEPT ![t] = a]
            /\ UNCHANGED <<drained, loopq>>
       ELSE IF EmptyChunk(audio_to_send)
       THEN /\ acc' = [acc EXCEPT ![t] = NoAudio]
            /\ drained' = Append(drained,
                             [chunk |-> audio_to_send, posted |-> FALSE])
            /\ UNCHANGED loopq
       ELSE /\ acc' = [acc EXCEPT ![t] = NoAudio]
            /\ drained' = Append(drained,
                             [chunk |-> audio_to_send, posted |-> is_connected])
            /\ loopq' = IF is_connected
                        THEN loopq \o <<Task("send_audio_chunk", Pcm16(audio_to_send)),
                                        Task("commit_audio_buffer", NoAudio)>>
                        ELSE loopq
    /\ UNCHANGED <<am_is_recording, accepted, discarded, toggles, pushed,
                   played, interrupted, engVars>>
    /\ UNCHANGED <<lastAct, prevAct, op_sent, op_arg, cbs, lastMsg, emitted, calls>>
    /\ UNCHANGED <<clientVars, wireVars, coVars, dlgVars, amVars>>

\* audio_buffer.get timed out on an empty queue (queue.Empty, lines
\* 407-408): back to the loop test
process_audio_input_timeout(t) ==
    /\ thr_pc[t] = "getting"
    /\ audio_buffer = <<>>
    /\ thr_pc' = [thr_pc EXCEPT ![t] = "running"]
    /\ Act("process_audio_input:queue.Empty")
    /\ UNCHANGED <<am_is_recording, audio_buffer, accepted, discarded, acc,
                   toggles, pushed, drained, played, interrupted, engVars>>
    /\ UNCHANGED <<op_sent, op_arg, cbs, lastMsg, emitted, calls, loopq>>
    /\ UNCHANGED <<clientVars, wireVars, coVars, dlgVars, amVars>>

\* toggle_speech_mode() (lines 303-315) with _start_speech_mode (317-353)
\* and _stop_speech_mode (355-360).  The reconnection _start_speech_mode
\* posts when the client is not connected is the connect() of the
\* specification; the branch taken here is the one where is_connected is
\* still False after the wait.
toggle_speech_mode ==
    /\ toggles < MaxToggles
    /\ toggles' = toggles + 1
    /\ IF ~speech_enabled
       THEN /\ last_error_message' = ErrSpeechDisabled
            /\ UNCHANGED <<speech_mode, is_listening, amVars,
                           am_is_recording, thr_pc, acc, input_queue, pb_buffer>>
       ELSE IF ~speech_mode /\ ~is_connected
       THEN /\ last_error_message' = ErrVoiceConnection
            /\ speech_mode' = FALSE
            /\ UNCHANGED <<is_listening, amVars, am_is_recording, thr_pc, acc,
                           input_queue, pb_buffer>>
       ELSE IF ~speech_mode
       THEN \* set_volumes with the overlay's output volume (the value the
            \* audio manager already has), start_recording (is_recording
            \* is cleared again when the input stream cannot be opened),
            \* start_playback, the processing thread
            /\ \E t \in Threads : thr_pc[t] # "running"
            /\ speech_mode' = TRUE
            /\ am_is_recording' = IF am_is_recording THEN TRUE ELSE input_device_ok
            /\ am_is_playing' = TRUE
            /\ should_stop' = IF am_is_recording /\ am_is_playing
                              THEN should_stop ELSE FALSE
            /\ UNCHANGED pb_stale
            /\ pb_worker' = IF am_is_playing THEN pb_worker
                            ELSE IF output_device_ok THEN "running" ELSE "failed"
            /\ is_listening' = TRUE
            /\ thr_pc' = [thr_pc EXCEPT ![FreeThread] = "running"]
            /\ acc' = [acc EXCEPT ![FreeThread] = NoAudio]
            /\ UNCHANGED <<last_error_message, output_queue, input_queue, pb_buffer>>
       ELSE \* stop_recording, stop_playback, clear_queues
            /\ speech_mode' = FALSE
            /\ is_listening' = FALSE
            /\ am_is_recording' = FALSE
            /\ stop_playback
            /\ clear_queues
            /\ UNCHANGED <<last_error_message, thr_pc, acc>>
    /\ UNCHANGED <<input_volume, output_volume, input_device_ok,
                   output_device_ok, outdata>>
    /\ UNCHANGED <<main_pc, user_input, async_loop, async_thread, stranded, npc_message, partial_response, speech_enabled, is_speaking>>
    /\ UNCHANGED <<audio_buffer, accepted, discarded, pushed, drained, played,
                   interrupted>>
    /\ UNCHANGED <<clientVars, wireVars, coVars, histVars>>

\* _start_speech_mode (lines 341-349) once the connection is verified:
\* set_volumes with the overlay's output volume (the value the audio
\* manager already has), start_recording, start_playback, is_listening,
\* the processing thread
StartStreams ==
    /\ \E t \in Threads : thr_pc[t] # "running"
    /\ am_is_recording' = IF am_is_recording THEN TRUE ELSE input_device_ok
    /\ am_is_playing' = TRUE
    /\ should_stop' = IF am_is_recording /\ am_is_playing
                      THEN should_stop ELSE FALSE
    /\ UNCHANGED pb_stale
    /\ pb_worker' = IF am_is_playing THEN pb_worker
                    ELSE IF output_device_ok THEN "running" ELSE "failed"
    /\ is_listening' = TRUE
    /\ thr_pc' = [thr_pc EXCEPT ![FreeThread] = "running"]
    /\ acc' = [acc EXCEPT ![FreeThread] = NoAudio]

\* toggle_speech_mode() (lines 303-315) switching voice mode on while the
\* client is not connected: speech_mode is set, _start_speech_mode posts
\* _setup_realtime_session to the event loop and sleeps for a second
start_speech_mode_reconnect(npc) ==
    /\ toggles < MaxToggles
    /\ toggles' = toggles + 1
    /\ main_pc = MainIdle
    /\ speech_enabled
    /\ ~speech_mode
    /\ ~is_connected
    /\ speech_mode' = TRUE
    /\ loopq' = Append(loopq, Task("setup_realtime_session", npc))
    /\ main_pc' = [at |-> "wait", npc |-> npc]
    /\ UNCHANGED <<npc_message, partial_response, last_error_message,
                   speech_enabled, is_listening, is_speaking, user_input, async_loop, async_thread, stranded>>
    /\ UNCHANGED <<lastAct, prevAct, op_sent, op_arg, cbs, lastMsg, emitted, calls>>
    /\ UNCHANGED <<am_is_recording, audio_buffer, accepted, discarded, thr_pc,
                   acc, pushed, drained, played, interrupted, engVars>>
    /\ UNCHANGED <<clientVars, wireVars, coVars, amVars>>

\* variant of the end of the wait that does not look at is_connected
start_speech_mode_after_wait_NoCheck ==
    /\ main_pc.at = "wait"
    /\ main_pc' = MainIdle
    /\ StartStreams
    /\ UNCHANGED <<speech_mode, last_error_message>>
    /\ UNCHANGED <<npc_message, partial_response, speech_enabled, is_speaking,
                   user_input, async_loop, async_thread, stranded, output_queue>>
    /\ UNCHANGED <<audio_buffer, accepted, discarded, toggles, pushed, drained,
                   played, interrupted, engVars>>
    /\ UNCHANGED <<clientVars, wireVars, coVars, histVars>>

\* _start_speech_mode after the sleep (lines 334-353): is_connected is read
\* again; voice mode is switched off with an error message when the client
\* is still not connected, and the streams and the thread are started when
\* it is
start_speech_mode_after_wait ==
    /\ main_pc.at = "wait"
    /\ main_pc' = MainIdle
    /\ IF ~is_connected
       THEN /\ last_error_message' = ErrVoiceConnection
            /\ speech_mode' = FALSE
            /\ UNCHANGED <<is_listening, am_is_recording, am_is_playing,
                           should_stop, pb_worker, pb_stale, thr_pc, acc>>
       ELSE /\ StartStreams
            /\ UNCHANGED <<speech_mode, last_error_message>>
    /\ UNCHANGED <<npc_message, partial_response, speech_enabled, is_speaking,
                   user_input, async_loop, async_thread, stranded, output_queue>>
    /\ UNCHANGED <<audio_buffer, accepted, discarded, toggles, pushed, drained,
                   played, interrupted, engVars>>
    /\ UNCHANGED <<clientVars, wireVars, coVars, histVars>>

\* start_conversation: initial_messages.get(npc_role, ...)
Greeting(npc) ==
    CASE npc = "HR"  -> <<"Hello!", "I'm", "Sarah">>
      [] npc = "CEO" -> <<"Hi", "there!", "I'm", "Michael">>
      [] OTHER       -> <<"Hello!", "How", "can", "I", "help">>

\* _start_async_loop (lines 268-283) as start_conversation sees it: TRUE
\* when a new thread is started, which is when self.async_thread is not
\* alive
StartsThread == async_thread \in {"none", "dead"}

\* start_conversation(npc_role) (lines 238-266): _start_async_loop, the
\* greeting is set and, while speech is enabled, _setup_realtime_session
\* is posted to self.async_loop. With a live thread nothing is started.
\* Otherwise a thread is started and `while self.async_loop is None`
\* waits for its loop only when the attribute is None: after _cleanup it
\* still refers to the stopped loop, the wait is skipped, and the post
\* (line 260) races with the new thread's assignment (line 274): the
\* coroutine lands on the new loop or on the stopped one
start_conversation(npc_role) ==
    /\ calls < MaxCalls
    /\ calls' = calls + 1
    /\ npc_message' = Greeting(npc_role)
    /\ LET setup == IF speech_enabled
                    THEN <<Task("setup_realtime_session", npc_role)>>
                    ELSE <<>>
       IN  \/ /\ ~StartsThread
              /\ IF async_loop = "running"
                 THEN loopq' = loopq \o setup /\ UNCHANGED stranded
                 ELSE stranded' = stranded \o setup /\ UNCHANGED loopq
              /\ UNCHANGED <<async_loop, async_thread>>
           \/ /\ StartsThread
              /\ async_loop' = "running"
              /\ async_thread' = "alive"
              /\ loopq' = loopq \o setup
              /\ UNCHANGED stranded
           \/ /\ StartsThread
              /\ async_loop = "stopped"
              /\ async_thread' = "starting"
              /\ stranded' = stranded \o setup
              /\ UNCHANGED <<async_loop, loopq>>
    /\ UNCHANGED <<main_pc, user_input, partial_response, last_error_message, speech_mode,
                   speech_enabled, is_listening, is_speaking>>
    /\ UNCHANGED <<lastAct, prevAct, op_sent, op_arg, cbs, lastMsg, emitted>>
    /\ UNCHANGED <<clientVars, wireVars, coVars, amVars, xVars>>

\* run_async_loop (lines 273-276), the thread's target: a new event loop
\* is created, assigned to self.async_loop and run
run_async_loop ==
    /\ async_thread = "starting"
    /\ async_loop' = "running"
    /\ async_thread' = "alive"
    /\ UNCHANGED <<npc_message, partial_response, last_error_message,
                   speech_mode, speech_enabled, is_listening, is_speaking,
                   main_pc, user_input, stranded>>
    /\ UNCHANGED <<clientVars, wireVars, coVars, amVars, histVars, xVars>>

\* _cleanup (lines 723-758), called by handle_input on Shift+Q in an idle
\* conversation: _stop_speech_mode and audio_manager.cleanup() (recording
\* and playback stopped, queues cleared), the flags cleared, disconnect()
\* posted while the client is connected, loop.stop() posted, the thread
\* joined. The loop leaves run_forever at the end of the iteration that
\* runs stop(): the first step of disconnect() (the flags) has run by then
\* or has not. The loop is not closed and self.async_loop is not reset
dialogue_cleanup ==
    /\ async_thread = "alive"
    /\ async_loop = "running"
    /\ main_pc = MainIdle
    /\ CallerIdle
    /\ loopq = <<>>
    /\ speech_mode' = FALSE
    /\ is_listening' = FALSE
    /\ is_speaking' = FALSE
    /\ am_is_recording' = FALSE
    /\ stop_playback
    /\ clear_queues
    /\ \/ UNCHANGED <<stop_event, is_connected, is_processing>>
       \/ /\ is_connected
          /\ stop_event' = TRUE
          /\ is_connected' = FALSE
          /\ is_processing' = FALSE
    /\ async_loop' = "stopped"
    /\ async_thread' = "dead"
    /\ UNCHANGED <<npc_message, partial_response, last_error_message,
                   speech_enabled, main_pc, user_input, stranded>>
    /\ UNCHANGED <<websocket, interrupt_event, is_playing, is_recording,
                   current_voice, current_instructions, current_npc_name,
                   npc_voices>>
    /\ UNCHANGED <<input_volume, output_volume, input_device_ok,
                   output_device_ok, outdata>>
    /\ UNCHANGED <<audio_buffer, accepted, discarded, thr_pc, acc, toggles,
                   pushed, drained, played, interrupted>>
    /\ UNCHANGED <<wireVars, coVars, histVars>>

\* _setup_realtime_session (lines 285-301) starts on the event loop and
\* awaits connect(): connect() is entered whether or not the client is
\* connected
setup_realtime_session ==
    /\ loopq # <<>>
    /\ Head(loopq).op = "setup_realtime_session"
    /\ CallerIdle
    /\ op_pc' = "setup"
    /\ conn_pc' = "try"
    /\ attempt' = 0
    /\ conn_ret' = "pending"
    /\ UNCHANGED <<disc_pc, listener>>
    /\ UNCHANGED <<clientVars, wireVars, dlgVars, amVars, histVars, xVars>>

\* _setup_realtime_session after connect() returned True: configure_session
\* for the role of the conversation
setup_realtime_session_configure ==
    /\ op_pc = "setup"
    /\ conn_pc = "idle"
    /\ conn_ret = "true"
    /\ loopq' = Tail(loopq)
    /\ op_arg' = Head(loopq).arg
    /\ UNCHANGED calls
    /\ configure_session(DialogueVoice(Head(loopq).arg),
                         DialogueInstructions(Head(loopq).arg), Head(loopq).arg)

\* _setup_realtime_session after connect() returned False: logged
setup_realtime_session_failed ==
    /\ op_pc = "setup"
    /\ conn_pc = "idle"
    /\ conn_ret = "false"
    /\ loopq' = Tail(loopq)
    /\ op_pc' = "idle"
    /\ UNCHANGED <<conn_pc, attempt, conn_ret, disc_pc, listener>>
    /\ UNCHANGED <<lastAct, prevAct, op_sent, op_arg, cbs, lastMsg, emitted, calls>>
    /\ UNCHANGED <<clientVars, wireVars, dlgVars, amVars, xVars>>

\* the responses that have audio on its way to the client, queued for
\* playback or played
AudioResponses ==
    UNION { {inbound[c][i].resp : i \in {j \in 1..Len(inbound[c]) :
                                          inbound[c][j].type = "response.audio.delta"}}
            : c \in Conns }
    \cup {output_queue[i].resp : i \in 1..Len(output_queue)}
    \cup {played[i].resp : i \in 1..Len(played)}

\* interrupt_speech() (lines 469-487): stop_playback, clear_queues, the
\* flags, and interrupt_response posted while the client is connected.
\* The responses that have audio under way are recorded as interrupted.
InterruptSpeechCall ==
    /\ calls < MaxCalls
    /\ calls' = calls + 1
    /\ stop_playback
    /\ clear_queues
    /\ is_speaking' = FALSE
    /\ is_playing' = FALSE
    /\ loopq' = IF is_connected
                THEN Append(loopq, Task("interrupt_response", NoAudio))
                ELSE loopq
    /\ interrupted' = interrupted \cup AudioResponses
    /\ played' = <<>>
    /\ UNCHANGED <<input_volume, output_volume, input_device_ok,
                   output_device_ok, outdata>>
    /\ UNCHANGED <<is_connected, websocket, stop_event, interrupt_event,
                   is_processing, is_recording, current_voice,
                   current_instructions, current_npc_name, npc_voices>>
    /\ UNCHANGED <<npc_message, partial_response, last_error_message,
                   speech_mode, speech_enabled, is_listening>>
    /\ UNCHANGED <<lastAct, prevAct, op_sent, op_arg, cbs, lastMsg, emitted>>
    /\ UNCHANGED <<am_is_recording, audio_buffer, accepted, discarded, thr_pc,
                   acc, toggles, pushed, drained>>
    /\ UNCHANGED <<wireVars, coVars>>

\* interrupt_speech() called by the player's interrupt key
interrupt_speech ==
    /\ InterruptSpeechCall
    /\ UNCHANGED <<main_pc, user_input, async_loop, async_thread, stranded>>

\* variant of the fallback that answers nothing
FallbackResponse_Silent(npc, user_message) == <<>>

\* _fallback_text_response(user_message) (lines 455-467)
FallbackResponse(npc, user_message) ==
    IF npc = "HR"
    THEN <<"Hi!", "I'm", "Sarah", "from", "HR.", "You", "said:">>
            \o user_message \o <<"I'd", "be", "happy", "to", "help">>
    ELSE IF npc = "CEO"
    THEN <<"Hello!", "I'm", "Michael,", "the", "CEO.", "You", "mentioned:">>
            \o user_message \o <<"I'm", "here", "to", "discuss">>
    ELSE <<"Thanks", "for", "your", "message:">>
            \o user_message \o <<"I'm", "here", "to", "help!">>

\* tokens the player types at a time, and the longest input line
TypedText == { <<"hello">> }
MaxTyped == 1

\* handle_input (lines 522-529): a printable key is appended to the input
\* line
type_text(text) ==
    /\ Len(user_input) < MaxTyped
    /\ user_input' = user_input \o text
    /\ UNCHANGED <<async_loop, async_thread, stranded>>
    /\ UNCHANGED <<npc_message, partial_response, last_error_message,
                   speech_mode, speech_enabled, is_listening, is_speaking,
                   main_pc>>
    /\ UNCHANGED <<clientVars, wireVars, coVars, amVars, histVars, xVars>>

\* send_text_message() of the orchestrator (lines 416-453), on the main
\* thread, for a non-empty user_input: interrupt_speech() first
dialogue_send_text_message(npc) ==
    /\ main_pc.at = "idle"
    /\ user_input # <<>>
    /\ InterruptSpeechCall
    /\ main_pc' = [at |-> "post", npc |-> npc]
    /\ UNCHANGED <<user_input, async_loop, async_thread, stranded>>

\* send_text_message() after interrupt_speech() returned: is_connected is
\* read again; configure_session and the client's send_text_message are
\* posted to the event loop, or the fallback answers
dialogue_send_text_message_post ==
    /\ main_pc.at = "post"
    /\ main_pc' = MainIdle
    /\ user_input' = <<>>
    /\ UNCHANGED <<async_loop, async_thread, stranded>>
    /\ IF is_connected
       THEN /\ loopq' = loopq \o <<Task("configure_session", main_pc.npc),
                                   Task("send_text_message", main_pc.npc)>>
            /\ UNCHANGED npc_message
       ELSE /\ npc_message' = FallbackResponse(main_pc.npc, user_input)
            /\ UNCHANGED loopq
    /\ UNCHANGED <<partial_response, last_error_message, speech_mode,
                   speech_enabled, is_listening, is_speaking>>
    /\ UNCHANGED <<lastAct, prevAct, op_sent, op_arg, cbs, lastMsg, emitted, calls>>
    /\ UNCHANGED <<clientVars, wireVars, coVars, amVars, xVars>>

----------------------------------------------------------------------------
\* The session protocol: a caller that awaits connect / disconnect / the
\* client operations one after the other, the receive loop tasks, the
\* service and the transport.

Init ==
    /\ is_connected = FALSE
    /\ websocket = None
    /\ stop_event = FALSE
    /\ interrupt_event = FALSE
    /\ is_processing = FALSE
    /\ is_playing = FALSE
    /\ is_recording = FALSE
    /\ current_voice = "alloy"
    /\ current_instructions = ""
    /\ current_npc_name = "HR"
    /\ npc_voices = InitialVoices
    /\ ws_state = [c \in Conns |-> "unopened"]
    /\ inbound = [c \in Conns |-> <<>>]
    /\ outbound = <<>>
    /\ conn_pc = "idle"
    /\ attempt = 0
    /\ conn_ret = "none"
    /\ disc_pc = "idle"
    /\ op_pc = "idle"
    /\ listener = [c \in Conns |-> "none"]
    /\ npc_message = <<>>
    /\ partial_response = <<>>
    /\ last_error_message = <<>>
    /\ speech_mode = FALSE
    /\ speech_enabled = TRUE
    /\ is_listening = FALSE
    /\ is_speaking = FALSE
    /\ main_pc = MainIdle
    /\ user_input = <<>>
    /\ async_loop = "none"
    /\ async_thread = "none"
    /\ stranded = <<>>
    /\ am_is_playing = FALSE
    /\ should_stop = FALSE
    /\ output_queue = <<>>
    /\ pb_worker = "none"
    /\ pb_stale = 0
    /\ lastAct = "init"
    /\ prevAct = "init"
    /\ op_sent = <<>>
    /\ op_arg = ""
    /\ cbs = <<>>
    /\ lastMsg = In("none", <<>>, TRUE, 0)
    /\ emitted = 0
    /\ calls = 0
    /\ loopq = <<>>
    /\ am_is_recording = FALSE
    /\ audio_buffer = <<>>
    /\ accepted = 0
    /\ discarded = 0
    /\ thr_pc = [t \in Threads |-> "none"]
    /\ acc = [t \in Threads |-> NoAudio]
    /\ toggles = 0
    /\ pushed = <<>>
    /\ drained = <<>>
    /\ played = <<>>
    /\ interrupted = {}
    /\ input_queue = <<>>
    /\ input_volume = 100
    /\ output_volume = 100
    /\ input_device_ok = TRUE
    /\ output_device_ok = TRUE
    /\ pb_buffer = <<>>
    /\ outdata = <<>>

Connect ==
    \/ ConnectCall
    \/ ConnectSucceed
    \/ ConnectFail
    \/ ConnectExhausted

\* connect() called as _start_speech_mode calls it (line 322): only while
\* the session is not connected
Reconnect ==
    \/ (~is_connected /\ ConnectCall)
    \/ ConnectSucceed
    \/ ConnectFail
    \/ ConnectExhausted

Disconnect ==
    \/ DisconnectCall
    \/ DisconnectDone

Listener ==
    \E c \in Conns :
        \/ ListenerStart(c)
        \/ ListenerRecv(c)
        \/ ListenerClosed(c)

ConfigureSession ==
    /\ CallStart("CEO")
    /\ configure_session(ClientVoice("CEO"), ClientInstructions("CEO"), "CEO")

CommitAudioBuffer ==
    \/ (CallStart("") /\ commit_audio_buffer)
    \/ commit_audio_buffer_sent

SendTextMessage ==
    \/ \E npc \in {"HR", "InvalidNPC"} : CallStart(npc) /\ send_text_message(npc)
    \/ send_text_message_item
    \/ send_text_message_response
    \/ send_text_message_sent

InterruptResponse ==
    \/ (CallStart("") /\ interrupt_response)
    \/ interrupt_response_sent

----------------------------------------------------------------------------
\* Spec: the pending-response flags.  A caller that connects, commits and
\* interrupts; the receive loop; a service that streams audio, completes
\* responses and reports errors; a transport that may drop.

FlagsInbound ==
    { In("response.audio.delta", <<100>>, TRUE, 0),
      In("response.done", <<>>, TRUE, 0),
      In("error", ErrCancelRace, TRUE, 0),
      In("error", ErrOther, TRUE, 0) }

FlagsService ==
    \E c \in Conns :
        \/ \E m \in FlagsInbound : ServerEmit(c, m)
        \/ TransportClose(c, "closed_err")

Next ==
    \/ Reconnect
    \/ Listener
    \/ FlagsService
    \/ CommitAudioBuffer
    \/ InterruptResponse

Spec == Init /\ [][Next]_vars

----------------------------------------------------------------------------
\* SpecConnect: connection lifecycle.  connect() with its retries,
\* disconnect(), the receive loop tasks, a service that greets and
\* completes, a transport that may close either way.

ConnectInbound ==
    { In("session.created", <<>>, TRUE, 0),
      In("response.done", <<>>, TRUE, 0) }

ConnectService ==
    \E c \in Conns :
        \/ \E m \in ConnectInbound : ServerEmit(c, m)
        \/ \E how \in {"closed_ok", "closed_err"} : TransportClose(c, how)

NextConnect ==
    \/ Connect
    \/ Disconnect
    \/ Listener
    \/ ConnectService

SpecConnect == Init /\ [][NextConnect]_vars

----------------------------------------------------------------------------
\* SpecText: the text path.  configure_session and send_text_message, the
\* receive loop, a service that streams text.

TextInbound ==
    { In("response.text.delta", <<"a">>, TRUE, 0),
      In("response.text.done", <<"a", "b">>, TRUE, 0),
      In("response.text.done", <<>>, TRUE, 0),
      In("response.audio_transcript.done", <<"b">>, TRUE, 0) }

TextService ==
    \E c \in Conns :
        \/ \E m \in TextInbound : ServerEmit(c, m)
        \/ TransportClose(c, "closed_err")

NextText ==
    \/ Reconnect
    \/ Listener
    \/ TextService
    \/ ConfigureSession
    \/ SendTextMessage

SpecText == Init /\ [][NextText]_vars

----------------------------------------------------------------------------
\* SpecVoice: one voice session.  The session is connected (connection
\* attempts succeed), voice mode is switched on, the microphone delivers
\* frames, the processing thread accumulates and posts, the event loop
\* sends; the transport may drop.

NextVoice ==
    \/ (~is_connected /\ ConnectCall)
    \/ ConnectSucceed
    \/ \E c \in Conns : ListenerStart(c)
    \/ \E c \in Conns : ListenerClosed(c)
    \/ \E c \in Conns : TransportClose(c, "closed_err")
    \/ (~speech_mode /\ toggle_speech_mode)
    \/ \E pcm \in {<<0>>, <<1>>} :
           Len(audio_buffer) < MaxBacklog /\ audio_callback(pcm)
    \/ \E t \in Threads : process_audio_input(t)
    \/ RunTask
    \/ commit_audio_buffer_sent

SpecVoice == Init /\ [][NextVoice]_vars

----------------------------------------------------------------------------
\* SpecToggle: voice mode switched on and off at will.  Frames arrive one
\* at a time (the next one after the previous one was taken); connection
\* attempts succeed.

NextToggle ==
    \/ (~is_connected /\ ConnectCall)
    \/ ConnectSucceed
    \/ \E c \in Conns : ListenerStart(c)
    \/ toggle_speech_mode
    \/ (accepted < MaxInterleaved /\ audio_buffer = <<>> /\ audio_callback(<<1>>))
    \/ \E t \in Threads : process_audio_input(t)
    \/ RunTask
    \/ commit_audio_buffer_sent

SpecToggle == Init /\ [][NextToggle]_vars

----------------------------------------------------------------------------
\* SpecAccumulate: the accumulation loop of a connected session in voice
\* mode, fed with frames of different samples and lengths, among them
\* samples that leave the 16-bit range once amplified.

AccumulatedPcm == { <<1>>, <<7000, -8000>> }

NextAccumulate ==
    \/ (~is_connected /\ ConnectCall)
    \/ ConnectSucceed
    \/ \E c \in Conns : ListenerStart(c)
    \/ (is_connected /\ ~speech_mode /\ toggle_speech_mode)
    \/ \E pcm \in AccumulatedPcm :
           /\ accepted < MaxAccumulated
           /\ audio_buffer = <<>>
           /\ audio_callback(pcm)
    \/ \E t \in Threads : process_audio_input(t)
    \/ RunTask
    \/ commit_audio_buffer_sent

SpecAccumulate == Init /\ [][NextAccumulate]_vars

----------------------------------------------------------------------------
\* SpecEmptyChunk: the accumulation loop of a connected session in voice
\* mode when _on_audio_input is also given frames without samples.

EmptyOrNotPcm == { <<>>, <<1>> }

NextEmptyChunk ==
    \/ (~is_connected /\ ConnectCall)
    \/ ConnectSucceed
    \/ \E c \in Conns : ListenerStart(c)
    \/ (is_connected /\ ~speech_mode /\ toggle_speech_mode)
    \/ \E pcm \in EmptyOrNotPcm :
           /\ accepted < MaxAccumulated
           /\ audio_buffer = <<>>
           /\ audio_callback(pcm)
    \/ \E t \in Threads : process_audio_input(t)
    \/ RunTask
    \/ commit_audio_buffer_sent

SpecEmptyChunk == Init /\ [][NextEmptyChunk]_vars

----------------------------------------------------------------------------
\* SpecStart: conversations are started one after the other; each start
\* posts _setup_realtime_session, which connects and configures.

NextStart ==
    \/ \E npc_role \in {"HR", "CEO"} : start_conversation(npc_role)
    \/ setup_realtime_session
    \/ ConnectSucceed
    \/ ConnectFail
    \/ ConnectExhausted
    \/ setup_realtime_session_configure
    \/ setup_realtime_session_failed
    \/ \E c \in Conns : ListenerStart(c)

SpecStart == Init /\ [][NextStart]_vars

----------------------------------------------------------------------------
\* SpecCapture: the input queue of the audio engine.  Voice mode is
\* switched on and off on a connected session, the input stream delivers
\* frames, frames are taken with get_audio_chunk.

NextCapture ==
    \/ (~is_connected /\ ConnectCall)
    \/ ConnectSucceed
    \/ \E c \in Conns : ListenerStart(c)
    \/ (is_connected /\ toggle_speech_mode)
    \/ (accepted < MaxInterleaved /\ audio_buffer = <<>> /\ audio_callback(<<1>>))
    \/ (input_queue # <<>> /\ get_audio_chunk)
    \/ \E t \in Threads : process_audio_input(t)
    \/ RunTask
    \/ commit_audio_buffer_sent

SpecCapture == Init /\ [][NextCapture]_vars

----------------------------------------------------------------------------
\* SpecEngine: the audio engine on its own.  Recording and playback are
\* started and stopped, chunks are queued for playback, the output stream
\* asks for frames, the volumes are set, and the devices come and go.

\* chunks handed to the engine for playback
MaxQueued == 3

EngineChunks == { [resp |-> 0, pcm |-> <<100>>],
                  [resp |-> 0, pcm |-> <<200, 300>>] }
FrameSizes == {2, 3}
VolumeArgs == { <<>>, <<0 - 100>>, <<50>>, <<200>> }

NextEngine ==
    \/ start_recording
    \/ stop_recording
    \/ StartPlayback
    \/ \E chunk \in EngineChunks :
           Len(played) + Len(output_queue) < MaxQueued /\ PlayAudioChunk(chunk)
    \/ StopPlayback
    \/ DeviceChange
    \/ \E frames \in FrameSizes : playback_callback(frames)

SpecEngine == Init /\ [][NextEngine]_vars

----------------------------------------------------------------------------
\* SpecVolumes: the volumes are set, with arguments in and out of range
\* and omitted, while frames are captured and played.

NextVolumes ==
    \/ \E in_vol \in VolumeArgs : \E out_vol \in VolumeArgs :
           set_volumes(in_vol, out_vol)
    \/ start_recording
    \/ (am_is_recording /\ accepted < MaxBacklog /\ audio_callback(<<1>>))
    \/ \E chunk \in EngineChunks :
           Len(played) + Len(output_queue) < MaxBacklog /\ PlayAudioChunk(chunk)
    \/ playback_callback(2)

SpecVolumes == Init /\ [][NextVolumes]_vars

----------------------------------------------------------------------------
\* SpecSendText: a conversation is started, which connects on the event
\* loop, and the player sends text messages from the main thread.

NextSendText ==
    \/ \E npc \in {"HR", "CEO"} : start_conversation(npc)
    \/ setup_realtime_session
    \/ ConnectSucceed
    \/ ConnectFail
    \/ ConnectExhausted
    \/ setup_realtime_session_configure
    \/ setup_realtime_session_failed
    \/ \E text \in TypedText : type_text(text)
    \/ \E npc \in {"HR", "CEO"} : dialogue_send_text_message(npc)
    \/ dialogue_send_text_message_post
    \/ RunTask
    \/ interrupt_response_sent
    \/ send_text_message_item
    \/ send_text_message_response
    \/ send_text_message_sent
    \/ \E c \in Conns : TransportClose(c, "closed_err")

SpecSendText == Init /\ [][NextSendText]_vars

----------------------------------------------------------------------------
\* SpecDispatch: the receive loop of a connected session handles whatever
\* the service sends, every message type of _handle_message, an unhandled
\* type and an undecodable message included.

NextDispatch ==
    \/ (~is_connected /\ ConnectCall)
    \/ ConnectSucceed
    \/ \E c \in Conns : ListenerStart(c)
    \/ \E c \in Conns : ListenerRecv(c)
    \/ \E c \in Conns : \E m \in SessionInbound : ServerEmit(c, m)

SpecDispatch == Init /\ [][NextDispatch]_vars

----------------------------------------------------------------------------
\* SpecInterrupt: the player interrupts a spoken response.  The service
\* streams the audio of a response until it is told to cancel; the receive
\* loop hands the audio to the playback queue; the output stream plays.

StreamedAudio == { In("response.audio.delta", <<100>>, TRUE, 1) }

\* the service streams audio as long as no response.cancel was sent to it
ServiceStreamsAudio ==
    /\ \A i \in 1..Len(outbound) : outbound[i].type # "response.cancel"
    /\ \E c \in Conns : \E m \in StreamedAudio : ServerEmit(c, m)

NextInterrupt ==
    \/ (~is_connected /\ ConnectCall)
    \/ ConnectSucceed
    \/ \E c \in Conns : ListenerStart(c)
    \/ \E c \in Conns : ListenerRecv(c)
    \/ ServiceStreamsAudio
    \/ interrupt_speech
    \/ RunTask
    \/ interrupt_response_sent
    \/ playback_callback(1)

SpecInterrupt == Init /\ [][NextInterrupt]_vars

----------------------------------------------------------------------------
\* SpecSafeInterrupt: interrupt_speech() in every situation: with and
\* without a connection, with and without audio arriving, queued, playing
\* or being recorded.

NextSafeInterrupt ==
    \/ (~is_connected /\ ConnectCall)
    \/ ConnectSucceed
    \/ \E c \in Conns : ListenerStart(c)
    \/ \E c \in Conns : ListenerRecv(c)
    \/ ServiceStreamsAudio
    \/ \E c \in Conns : TransportClose(c, "closed_err")
    \/ \E c \in Conns : ListenerClosed(c)
    \/ start_recording
    \/ (accepted < MaxBacklog /\ audio_callback(<<1>>))
    \/ playback_callback(1)
    \/ interrupt_speech
    \/ RunTask
    \/ interrupt_response_sent

SpecSafeInterrupt == Init /\ [][NextSafeInterrupt]_vars

----------------------------------------------------------------------------
\* SpecErrorSink: errors of the service reach the orchestrator while voice
\* mode is on or off, and the player types and sends text.

ErrorSinkInbound ==
    { In("error", ErrBuffer, TRUE, 0),
      In("error", ErrCancelFailed, TRUE, 0),
      In("error", ErrCancelRace, TRUE, 0),
      In("error", ErrOther, TRUE, 0) }

NextErrorSink ==
    \/ (~is_connected /\ ConnectCall)
    \/ ConnectSucceed
    \/ \E c \in Conns : ListenerStart(c)
    \/ \E c \in Conns : ListenerRecv(c)
    \/ \E c \in Conns : \E m \in ErrorSinkInbound : ServerEmit(c, m)
    \/ toggle_speech_mode
    \/ \E text \in TypedText : type_text(text)
    \/ dialogue_send_text_message("HR")
    \/ dialogue_send_text_message_post
    \/ RunTask
    \/ interrupt_response_sent
    \/ send_text_message_item
    \/ send_text_message_response
    \/ send_text_message_sent

SpecErrorSink == Init /\ [][NextErrorSink]_vars

----------------------------------------------------------------------------
\* SpecEnterVoice: voice mode is switched on and off while the client is
\* connected, not connected, or connecting: the session _start_speech_mode
\* posts connects or fails while the main thread waits, or afterwards.

NextEnterVoice ==
    \/ \E npc \in {"HR"} : start_speech_mode_reconnect(npc)
    \/ start_speech_mode_after_wait
    \/ (main_pc = MainIdle /\ (speech_mode \/ is_connected \/ ~speech_enabled)
          /\ toggle_speech_mode)
    \/ setup_realtime_session
    \/ ConnectSucceed
    \/ ConnectFail
    \/ ConnectExhausted
    \/ setup_realtime_session_configure
    \/ setup_realtime_session_failed
    \/ \E c \in Conns : ListenerStart(c)
    \/ \E c \in Conns : TransportClose(c, "closed_err")
    \/ \E c \in Conns : ListenerClosed(c)
    \/ (accepted < MaxBacklog /\ audio_callback(<<1>>))
    \/ \E t \in Threads : process_audio_input(t)

SpecEnterVoice == Init /\ [][NextEnterVoice]_vars

----------------------------------------------------------------------------
\* SpecLoopExit: one period of voice mode.  Voice mode is switched on once
\* and off once; the input stream delivers frames; the loop of
\* _process_audio_input runs a statement at a time.  The thread is
\* scheduled: a step of it that stays possible is eventually taken.

LoopStep(t) ==
    \/ process_audio_input_test(t)
    \/ process_audio_input_get(t)
    \/ process_audio_input_timeout(t)

NextLoopExit ==
    \/ (~is_connected /\ ConnectCall)
    \/ ConnectSucceed
    \/ ((toggles = 0 \/ speech_mode) /\ toggle_speech_mode)
    \/ (Len(audio_buffer) < MaxBacklog /\ accepted < MaxAccumulated
           /\ audio_callback(<<1>>))
    \/ \E t \in Threads : process_audio_input_test(t)
    \/ \E t \in Threads : process_audio_input_get(t)
    \/ \E t \in Threads : process_audio_input_timeout(t)

SpecLoopExit ==
    /\ Init
    /\ [][NextLoopExit]_vars
    /\ \A t \in Threads : WF_vars(LoopStep(t))

----------------------------------------------------------------------------
\* SpecPeriods: voice mode switched on and off on a connected session,
\* with the sound at the microphone different in every period: a frame
\* captured after k toggles carries the sample k, so that a chunk shows
\* when its frames were captured.

PeriodSound(k) == <<k>>

NextPeriods ==
    \/ (~is_connected /\ ConnectCall)
    \/ ConnectSucceed
    \/ (is_connected /\ toggle_speech_mode)
    \/ (Len(audio_buffer) < MaxBacklog /\ accepted < MaxAccumulated
           /\ audio_callback(PeriodSound(toggles)))
    \/ \E t \in Threads : process_audio_input(t)

SpecPeriods == Init /\ [][NextPeriods]_vars

----------------------------------------------------------------------------
\* SpecProtocolError: the receive loop of a connected session is sent
\* messages it cannot handle (undecodable, not an object, of an unknown
\* type, with a partial text that makes the text callback raise) among
\* messages it can.

ProtocolErrorInbound ==
    { In(Malformed, <<>>, FALSE, 0),
      In(NotAnObject, <<>>, FALSE, 0),
      In("session.updated", <<>>, TRUE, 0),
      In("response.text.delta", <<"a">>, FALSE, 0),
      In("response.text.delta", <<"a">>, TRUE, 0),
      In("response.text.done", <<"a", "b">>, TRUE, 0),
      In("input_audio_buffer.speech_started", <<>>, TRUE, 0) }

NextProtocolError ==
    \/ (~is_connected /\ ConnectCall)
    \/ ConnectSucceed
    \/ \E c \in Conns : ListenerStart(c)
    \/ \E c \in Conns : ListenerRecv(c)
    \/ \E c \in Conns : \E m \in ProtocolErrorInbound : ServerEmit(c, m)

SpecProtocolError == Init /\ [][NextProtocolError]_vars

----------------------------------------------------------------------------
\* SpecCommit: commit_audio_buffer() is the only operation the caller
\* awaits, on a session that is connected, disconnected by the caller, or
\* cut off by the transport, with the receive loop completing responses.

CommitService ==
    \E c \in Conns :
        \/ ServerEmit(c, In("response.done", <<>>, TRUE, 0))
        \/ TransportClose(c, "closed_err")

NextCommit ==
    \/ Reconnect
    \/ Disconnect
    \/ Listener
    \/ CommitService
    \/ CommitAudioBuffer

SpecCommit == Init /\ [][NextCommit]_vars

----------------------------------------------------------------------------
\* SpecStop: recording and playback are started and stopped in any order,
\* the stop operations in every state; the join of stop_playback may time
\* out, and a worker left behind returns when it sees the flags; the
\* devices come and go.

NextStop ==
    \/ start_recording
    \/ StopRecordingCall
    \/ StartPlayback
    \/ \E chunk \in EngineChunks :
           Len(output_queue) < MaxQueued /\ PlayAudioChunk(chunk)
    \/ StopPlaybackCall
    \/ WorkerExit
    \/ DeviceChange

SpecStop == Init /\ [][NextStop]_vars

----------------------------------------------------------------------------
\* SpecProfiles: the persona-to-profile map.  Profiles are set for personas
\* of the initial table and for a new one, with every combination of
\* values, the sample omitted ("") or given.

ProfilePersonas == {"HR", "Engineer", "Intern"}
ProfileVoices == {"fable", "nova"}
ProfileInstructions == {"You are a technical expert."}
ProfileSamples == {"", "Hello from engineering!"}

\* personas looked up: those of the table, the new one, and one that no
\* call ever sets
LookedUp == ClientPersonas \cup ProfilePersonas \cup {"Ghost"}

NextProfiles ==
    \E npc \in ProfilePersonas, v \in ProfileVoices,
       i \in ProfileInstructions, sm \in ProfileSamples :
        set_npc_voice_config(npc, v, i, sm)

SpecProfiles == Init /\ [][NextProfiles]_vars

----------------------------------------------------------------------------
\* SpecStream: a connected session receives two text responses in a row,
\* each as deltas followed by its done event, while the caller sends text.

NextStream ==
    \/ (~is_connected /\ ConnectCall)
    \/ ConnectSucceed
    \/ \E c \in Conns : ListenerStart(c)
    \/ \E c \in Conns : ListenerRecv(c)
    \/ \E c \in Conns : ServerStream(c)
    \/ SendTextMessage

SpecStream == Init /\ [][NextStream]_vars

----------------------------------------------------------------------------
\* SpecSetupTwice: one conversation is started, and voice mode is entered
\* while the session its start posted has not connected yet, so that
\* _start_speech_mode posts _setup_realtime_session a second time.

NextSetupTwice ==
    \/ (calls = 0 /\ start_conversation("HR"))
    \/ start_speech_mode_reconnect("HR")
    \/ start_speech_mode_after_wait
    \/ setup_realtime_session
    \/ ConnectSucceed
    \/ ConnectFail
    \/ ConnectExhausted
    \/ setup_realtime_session_configure
    \/ setup_realtime_session_failed
    \/ \E c \in Conns : ListenerStart(c)

SpecSetupTwice == Init /\ [][NextSetupTwice]_vars

----------------------------------------------------------------------------
\* Conversations one after the other (SpecRestart): start_conversation,
\* the session setup on the event loop, _cleanup when the player leaves,
\* and the loop thread a later start_conversation starts. The event loop
\* thread is scheduled like any thread: a step it can take is taken
\* eventually, which is the weak fairness of the loop's steps.

RestartPersonas == {"HR", "CEO"}

\* a step of the event loop thread: its start, or a step of the setup
\* coroutine it runs
RestartLoopStep ==
    \/ run_async_loop
    \/ setup_realtime_session
    \/ ConnectSucceed
    \/ ConnectFail
    \/ ConnectExhausted
    \/ setup_realtime_session_configure
    \/ setup_realtime_session_failed

NextRestart ==
    \/ \E npc \in RestartPersonas : start_conversation(npc)
    \/ dialogue_cleanup
    \/ toggle_speech_mode
    \/ RestartLoopStep

SpecRestart ==
    /\ Init
    /\ [][NextRestart]_vars
    /\ WF_vars(run_async_loop)
    /\ WF_vars(setup_realtime_session)
    /\ WF_vars(ConnectSucceed \/ ConnectFail \/ ConnectExhausted)
    /\ WF_vars(setup_realtime_session_configure)
    /\ WF_vars(setup_realtime_session_failed)

----------------------------------------------------------------------------
\* Properties of connect() and the receive loop (SpecConnect).

\* C1: when every connection attempt of a connect() call fails, the call
\* returns False (no exception leaves it) after exactly three failed
\* attempts, and the session is left with is_connected = False.
C1_ConnectReturnsFalseAfterThreeFailures ==
    conn_ret = "false" =>
        /\ conn_pc = "idle"
        /\ attempt = 3
        /\ ~is_connected

\* a connect() that failed three times has just returned False
C1_Witness ==
    /\ lastAct = "connect:false"
    /\ conn_ret = "false"
    /\ attempt = 3

\* C2: while the session is connected over an open connection, the receive
\* loop task of that connection is alive (created or iterating), so every
\* inbound message reaches _handle_message; this is to hold after every
\* successful connect(), also one that follows a disconnect().
C2_ReceiveLoopAliveWhileConnected ==
    \A c \in Conns :
        (is_connected /\ websocket = c /\ ws_state[c] = "open")
            => listener[c] \in {"spawned", "running"}

----------------------------------------------------------------------------
\* Properties of the pending-response flags (Spec).

InterruptOutcomes ==
    {"interrupt_response:ok", "interrupt_response:noop", "interrupt_response:failed"}

\* the last handled message is an error event whose message contains
\* "no active response found"
HandledBenignError ==
    /\ lastAct = "recv:handled"
    /\ lastMsg.type = "error"
    /\ Contains(NoActiveResponseFound, Lower(lastMsg.data))

\* C3: when interrupt_response() is followed immediately by an inbound
\* error event whose message contains "no active response found", handling
\* that event invokes no error callback and leaves is_processing and
\* is_playing both False.
C3_BenignCancelErrorSuppressed ==
    (prevAct \in InterruptOutcomes /\ HandledBenignError) =>
        /\ \A i \in 1..Len(cbs) : cbs[i].cb # "error"
        /\ ~is_processing
        /\ ~is_playing

\* an interrupt that sent its cancellation, then the benign error handled
C3_Witness ==
    /\ prevAct = "interrupt_response:ok"
    /\ HandledBenignError

\* C8: an interrupt_response() call on a connected session (the call that
\* gets its message onto the connection) sends exactly one message, a
\* response.cancel, and returns with is_processing = False, is_playing =
\* False and interrupt_event set.
C8_InterruptSendsOneCancel ==
    (lastAct = "interrupt_response:ok" /\ op_pc = "idle") =>
        /\ op_sent = <<"response.cancel">>
        /\ outbound # <<>>
        /\ outbound[Len(outbound)] = Out("response.cancel", <<>>)
        /\ ~is_processing
        /\ ~is_playing
        /\ interrupt_event

\* an interrupt of a response that was playing has just returned
C8_Witness ==
    /\ lastAct = "interrupt_response:ok"
    /\ op_pc = "idle"
    /\ prevAct = "recv:handled"
    /\ lastMsg.type = "response.audio.delta"

\* C9: is_processing and is_playing are both False after the session
\* handled a response.done event, after it handled any error event, and
\* after an explicit interruption (an interrupt_response() call returned).
C9_FlagsClearedOnDoneErrorInterrupt ==
    (\/ lastAct = "recv:handled" /\ lastMsg.type \in {"response.done", "error"}
     \/ lastAct \in InterruptOutcomes)
        => (~is_processing /\ ~is_playing)

----------------------------------------------------------------------------
\* Properties of the text path (SpecText).

TextOrder == <<"session.update", "conversation.item.create", "response.create">>

IsPrefix(s, t) ==
    /\ Len(s) <= Len(t)
    /\ \A i \in 1..Len(s) : s[i] = t[i]

\* the types of the last n outbound messages
LastSent(n) ==
    [i \in 1..n |-> outbound[Len(outbound) - n + i].type]

\* C7: send_text_message with a known persona sends that persona's
\* session.update first, then the conversation.item.create, then the
\* response.create, and is_processing is True when it returns after the
\* three sends.
C7_ReconfigureBeforeMessage ==
    /\ (op_arg \in ClientPersonas /\ op_pc \in {"text_item", "text_resp", "text_flag"})
           => IsPrefix(op_sent, TextOrder)
    /\ (lastAct = "send_text_message:ok" /\ op_pc = "idle" /\ op_arg \in ClientPersonas)
           => /\ op_sent = TextOrder
              /\ Len(outbound) >= 3
              /\ LastSent(3) = TextOrder
              /\ outbound[Len(outbound) - 2].arg =
                     <<ClientVoice(op_arg), ClientInstructions(op_arg)>>
              /\ is_processing

\* a text message for the HR persona has just been sent
C7_Witness ==
    /\ lastAct = "send_text_message:ok"
    /\ op_pc = "idle"
    /\ op_arg = "HR"

DoneTypes == {"response.text.done", "response.audio_transcript.done"}

\* C10: the reply text carried by a done event is handed to the text
\* callback exactly once, as complete, and becomes npc_message; no other
\* event hands a text over as complete.
C10_CompleteTextDeliveredOnce ==
    lastAct = "recv:handled" =>
        /\ (lastMsg.type \in DoneTypes /\ lastMsg.data # <<>>)
               => /\ cbs = <<Cb("text", lastMsg.data, TRUE)>>
                  /\ npc_message = lastMsg.data
        /\ (lastMsg.type \notin DoneTypes)
               => \A i \in 1..Len(cbs) : ~(cbs[i].cb = "text" /\ cbs[i].complete)

\* connected, text message sent, a delta received, then the done event
C10_Witness ==
    /\ lastAct = "recv:handled"
    /\ lastMsg.type = "response.text.done"
    /\ lastMsg.data # <<>>
    /\ partial_response # <<>>
    /\ \E i \in 1..Len(outbound) : outbound[i].type = "response.create"

----------------------------------------------------------------------------
\* Properties of the interruption of a spoken response (SpecInterrupt).

\* C4: after interrupt_speech() no audio of the interrupted response is
\* left in the output queue, and none is queued or played afterwards, also
\* when audio deltas of that response are received after the interrupt.
C4_NoStaleAudioAfterInterrupt ==
    /\ \A i \in 1..Len(output_queue) : output_queue[i].resp \notin interrupted
    /\ \A i \in 1..Len(played) : played[i].resp \notin interrupted

----------------------------------------------------------------------------
\* Properties of the accumulation loop (SpecVoice, SpecToggle).

\* frames the processing thread has taken from audio_buffer
Consumed == accepted - Len(audio_buffer)

\* the number of frames at which accumulated_duration first reaches
\* min_commit_duration
FramesPerCommit ==
    CHOOSE n \in 1..MaxFrames :
        ReachedMinCommit(n) /\ \A k \in 0..(n - 1) : ~ReachedMinCommit(k)

\* the messages of a type sent so far
SentOfType(type) == {i \in 1..Len(outbound) : outbound[i].type = type}

\* C5: with voice mode on, the accumulation loop triggers the chunk and its
\* commit_audio_buffer() once each time the accumulated duration reaches
\* 500 ms, that is on every 12th accepted frame of 1024 samples at 24 kHz
\* and not once per frame: the k-th chunk holds the frames 12(k-1)+1..12k,
\* the loop holds the frames taken since the last chunk, and no more
\* commits are sent than chunks were posted.
C5_CommitOncePerHalfSecond ==
    /\ FramesPerCommit = 12
    /\ Len(drained) = Consumed \div FramesPerCommit
    /\ \A i \in 1..Len(drained) :
          /\ drained[i].chunk.n = FramesPerCommit
          /\ drained[i].chunk.first = (i - 1) * FramesPerCommit + 1
          /\ drained[i].chunk.consecutive
    /\ \A t \in Threads :
          thr_pc[t] = "running" => acc[t].n = Consumed % FramesPerCommit
    /\ Cardinality(SentOfType("input_audio_buffer.commit"))
          <= Cardinality({i \in 1..Len(drained) : drained[i].posted})

\* 30 accepted frames have gone through the loop of a connected session:
\* two chunks were posted and both commits were sent
C5_Witness ==
    /\ speech_mode
    /\ Consumed = 30
    /\ Len(drained) = 2
    /\ \A i \in 1..Len(drained) : drained[i].posted
    /\ Cardinality(SentOfType("input_audio_buffer.commit")) = 2
    /\ \E t \in Threads : thr_pc[t] = "running" /\ acc[t].n = 6

\* C5 as stated: 30 accepted frames that have gone through the loop
\* trigger exactly one commit
C5_ThirtyFramesCommitOnce ==
    (speech_mode /\ Consumed = 30) => Len(drained) = 1

\* C6: the chunks appended to the service hold consecutive accepted frames,
\* are appended in capture order, and each append is directly followed by
\* its own commit before any later append.
C6_ChunksSentInCaptureOrder ==
    \A i \in SentOfType("input_audio_buffer.append") :
        /\ outbound[i].arg.consecutive
        /\ i < Len(outbound) => outbound[i + 1].type = "input_audio_buffer.commit"
        /\ \A j \in SentOfType("input_audio_buffer.append") :
              i < j => outbound[j].arg.first >= outbound[i].arg.first + outbound[i].arg.n

----------------------------------------------------------------------------
\* Properties of the dispatch of inbound events (SpecDispatch).

\* the callback _handle_message invokes for a decoded message, "none" when
\* it invokes none
CallbackOf(m) ==
    CASE m.type = "session.created" -> "session_created"
      [] m.type = "response.audio.delta" ->
            IF m.data # <<>> /\ m.ok THEN "audio" ELSE "none"
      [] m.type \in {"response.text.delta", "response.text.done",
                     "response.audio_transcript.delta",
                     "response.audio_transcript.done"} ->
            IF m.data # <<>> THEN "text" ELSE "none"
      [] m.type = "input_audio_buffer.speech_started" -> "speech_started"
      [] m.type = "input_audio_buffer.speech_stopped" -> "speech_stopped"
      [] m.type = "error" ->
            IF Contains(NoActiveResponseFound, Lower(m.data)) THEN "none" ELSE "error"
      [] OTHER -> "none"

\* C11: a decoded inbound event invokes at most one registered callback,
\* the one of its kind: session.created, audio delta with data, text and
\* transcript events with text, speech started / stopped and errors other
\* than "no active response found" invoke exactly one; response.done, the
\* suppressed error, events without payload and unhandled types invoke
\* none.  No inbound message causes two invocations.
C11_AtMostOneCallbackPerEvent ==
    /\ Len(cbs) <= 1
    /\ lastAct = "recv:handled" =>
          IF CallbackOf(lastMsg) = "none"
          THEN cbs = <<>>
          ELSE Len(cbs) = 1 /\ cbs[1].cb = CallbackOf(lastMsg)
    /\ lastAct \in {"recv:undecodable", "recv:break"} => cbs = <<>>

\* an error event has just been handled and invoked the error callback
C11_Witness ==
    /\ lastAct = "recv:handled"
    /\ lastMsg.type = "error"
    /\ Len(cbs) = 1
    /\ cbs[1].cb = "error"

\* C11 as stated: every decoded event invokes exactly one callback
C11_ExactlyOneCallbackPerEvent ==
    lastAct = "recv:handled" => Len(cbs) = 1

----------------------------------------------------------------------------
\* Properties of the accumulator (SpecAccumulate).

\* the samples of the pushed frames lo..hi, in push order
RECURSIVE SamplesOf(_, _, _)
SamplesOf(frames, lo, hi) ==
    IF hi < lo THEN <<>>
    ELSE SamplesOf(frames, lo, hi - 1) \o frames[hi]

\* C12: the chunk handed over after N pushed frames is the concatenation
\* of those N frames in push order (the k-th chunk holds the samples of
\* the frames pushed since the (k-1)-th), the accumulator holds exactly
\* the frames pushed since the last hand-over, and right after a
\* hand-over it holds no frame and its duration is zero.
C12_ChunkIsConcatenationInPushOrder ==
    /\ \A i \in 1..Len(drained) :
          drained[i].chunk.audio =
              SamplesOf(pushed, (i - 1) * FramesPerCommit + 1, i * FramesPerCommit)
    /\ \A t \in Threads : thr_pc[t] = "running" =>
          /\ acc[t].audio = SubSeq(pushed, Len(drained) * FramesPerCommit + 1, Consumed)
          /\ acc[t].n = Len(acc[t].audio)
          /\ Consumed = Len(drained) * FramesPerCommit => acc[t] = NoAudio

\* a chunk of frames of both kinds has just been handed over and the
\* accumulator is empty
C12_Witness ==
    /\ Len(drained) = 1
    /\ Consumed = FramesPerCommit
    /\ pushed[1] = <<35000, -40000>>
    /\ pushed[2] = <<5>>
    /\ Len(drained[1].chunk.audio) > FramesPerCommit
    /\ \E t \in Threads : thr_pc[t] = "running" /\ acc[t] = NoAudio

\* the duration of n frames is below the 500 ms threshold (n frames of
\* chunk_size samples last n * chunk_size * 1000 / sample_rate ms)
BelowThreshold(n) ==
    n * chunk_size * 1000 < min_commit_duration_ms * sample_rate

PostedOf(op) == {i \in 1..Len(loopq) : loopq[i].op = op}

\* the chunks handed over and posted to the event loop
PostedChunks == {i \in 1..Len(drained) : drained[i].posted}

\* C14: a zero-length chunk is skipped: it is posted to neither
\* send_audio_chunk nor commit_audio_buffer (on a connected session the
\* appends and the commits sent or waiting are exactly those of the
\* non-empty chunks), and the accumulator is reset after it.
C14_EmptyChunkSkipsNetworkCall ==
    /\ \A i \in 1..Len(drained) :
          drained[i].chunk.audio = <<>> => ~drained[i].posted
    /\ \A i \in SentOfType("input_audio_buffer.append") :
          outbound[i].arg.audio # <<>>
    /\ \A i \in PostedOf("send_audio_chunk") : loopq[i].arg.audio # <<>>
    /\ Cardinality(SentOfType("input_audio_buffer.append"))
          + Cardinality(PostedOf("send_audio_chunk")) = Cardinality(PostedChunks)
    /\ Cardinality(SentOfType("input_audio_buffer.commit"))
          + Cardinality(PostedOf("commit_audio_buffer")) = Cardinality(PostedChunks)
    /\ \A t \in Threads : thr_pc[t] = "running" =>
          (Consumed = Len(drained) * FramesPerCommit => acc[t] = NoAudio)

\* twelve frames without samples reached the threshold on a connected
\* session: the chunk is empty, nothing was posted or sent, and the
\* accumulator is empty
C14_Witness ==
    /\ is_connected
    /\ Len(drained) = 1
    /\ drained[1].chunk.n = FramesPerCommit
    /\ drained[1].chunk.audio = <<>>
    /\ ~drained[1].posted
    /\ loopq = <<>>
    /\ outbound = <<>>
    /\ \E t \in Threads : thr_pc[t] = "running" /\ acc[t] = NoAudio

----------------------------------------------------------------------------
\* Properties of start_conversation (SpecStart).

\* the connections that are open, and the receive loop tasks that are alive
OpenConns == {c \in Conns : ws_state[c] = "open"}
LiveListeners == {c \in Conns : listener[c] \in {"spawned", "running"}}

\* C15: starting a conversation on a session that is already connected
\* only reconfigures it: no second connection is opened and no second
\* receive loop is spawned.
C15_StartConversationReusesConnection ==
    /\ Cardinality(OpenConns) <= 1
    /\ Cardinality(LiveListeners) <= 1

----------------------------------------------------------------------------
\* Properties of the audio engine (SpecCapture, SpecEngine).

\* C16: the input queue of the audio engine never holds more frames than
\* its cap (the oldest frame being dropped on overflow).
C16_InputQueueCapped ==
    Len(input_queue) <= InputQueueCap

\* C17: a device-open failure in start_recording or in start_playback
\* leaves the engine stopped: is_recording (is_playing) is false
\* afterwards, so a later start or play_audio_chunk tries again.
C17_DeviceFailureLeavesEngineStopped ==
    /\ lastAct = "start_recording:failed" => ~am_is_recording
    /\ pb_worker = "failed" => ~am_is_playing

\* the samples the output callback can reach: its buffer, then the chunks
\* of output_queue in order
Available ==
    pb_buffer \o Concatenate([i \in 1..Len(output_queue) |-> output_queue[i].pcm])

\* C18: the playback callback writes a frame of exactly the requested
\* length whatever the output queue holds; when fewer samples than the
\* frame asks for are available the positions of the missing samples are
\* silence (the whole frame is, and the available samples stay buffered),
\* and when enough are available the frame is the first of them in order.
C18_UnderfilledFrameIsFullLengthSilence ==
    [][\A frames \in FrameSizes :
          playback_callback(frames) =>
             /\ Len(outdata') = frames
             /\ Len(Available) < frames =>
                   /\ \A i \in (Len(Available) + 1)..frames : outdata'[i] = Silence
                   /\ \A i \in 1..Len(Available) : outdata'[i] = Silence
                   /\ pb_buffer' = Available
                   /\ output_queue' = <<>>
             /\ Len(Available) >= frames =>
                   /\ \A i \in 1..frames :
                         outdata'[i] = ToOutput(Available[i], output_volume)
                   /\ pb_buffer' \o Concatenate([i \in 1..Len(output_queue') |->
                                                   output_queue'[i].pcm])
                         = SubSeq(Available, frames + 1, Len(Available))]_vars

\* a callback found fewer samples than the frame asks for: the frame is
\* silence and the samples it found are in the buffer
C18_Witness ==
    /\ pb_worker = "running"
    /\ outdata # <<>>
    /\ \A i \in 1..Len(outdata) : outdata[i] = Silence
    /\ pb_buffer # <<>>
    /\ Len(pb_buffer) < Len(outdata)
    /\ output_queue = <<>>

\* C19: whatever arguments set_volumes is called with, below 0 and above 1
\* included, both volumes stay within [0, 1] (0..100 percent), and an
\* omitted argument leaves its volume as it was.
C19_VolumesClampedOmittedUnchanged ==
    /\ [](input_volume \in 0..100 /\ output_volume \in 0..100)
    /\ [][\A in_vol \in VolumeArgs : \A out_vol \in VolumeArgs :
             set_volumes(in_vol, out_vol) =>
                /\ in_vol = <<>> => input_volume' = input_volume
                /\ out_vol = <<>> => output_volume' = output_volume]_vars

\* set_volumes was called with an argument below 0 for the input volume
\* and one within range for the output volume
C19_Witness ==
    /\ input_volume = 0
    /\ output_volume = 50

\* the messages of one type among the first n sent
SentBefore(type, n) == {i \in SentOfType(type) : i <= n}

\* C20: on the outbound path every conversation.item.create of a text
\* message is preceded by the response.cancel of the interruption that
\* send_text_message performs first: up to each item there are at least as
\* many response.cancel as conversation.item.create.
C20_CancelPrecedesTextItem ==
    \A i \in SentOfType("conversation.item.create") :
        Cardinality(SentBefore("response.cancel", i))
            >= Cardinality(SentBefore("conversation.item.create", i))

----------------------------------------------------------------------------
\* Properties of the orchestrator's handlers (SpecSafeInterrupt,
\* SpecSendText, SpecErrorSink, SpecEnterVoice).

C22_FallbackWhenNotConnected ==
    [][(dialogue_send_text_message_post /\ ~is_connected) =>
          /\ npc_message' # <<>>
          /\ Contains(user_input, npc_message')
          /\ user_input # <<>>
          /\ user_input' = <<>>
          /\ loopq' = loopq
          /\ outbound' = outbound]_vars

\* a text message was answered by the fallback on a session that never
\* connected
C22_Witness ==
    /\ main_pc = MainIdle
    /\ ~is_connected
    /\ websocket = None
    /\ user_input = <<>>
    /\ Contains(<<"You", "said:", "hello">>, npc_message)
    /\ outbound = <<>>
    /\ loopq = <<>>


\* the errors _on_error recovers from
Recoverable(e) ==
    \/ Contains(BufferTooSmall, Lower(e))
    \/ Contains(CancellationFailed, Lower(e))

\* the error the error callback was last called with, if it was the last
\* callback
SinkError == IF cbs # <<>> /\ cbs[1].cb = "error" THEN {cbs[1].data} ELSE {}

\* C23: an error that reaches _on_error and is neither "buffer too small"
\* nor "cancellation failed" switches voice mode off and disables it; those
\* two leave speech_mode and speech_enabled as they were, and nothing else
\* disables voice mode; after either kind a typed message can still be
\* sent.
C23_VoiceDisabledOnNonRecoverableError ==
    /\ [](\A e \in SinkError : ~Recoverable(e) => ~speech_mode /\ ~speech_enabled)
    /\ [][\A e \in SinkError' :
             (cbs' # cbs /\ Recoverable(e)) =>
                 /\ speech_mode' = speech_mode
                 /\ speech_enabled' = speech_enabled]_vars
    /\ [][(speech_enabled /\ ~speech_enabled') =>
             \E e \in SinkError' : ~Recoverable(e)]_vars
    /\ [](SinkError # {} /\ main_pc = MainIdle /\ user_input # <<>>
             /\ calls < MaxCalls
          => ENABLED dialogue_send_text_message("HR"))

\* an error that is not recovered from arrived while voice mode was on: the
\* mode is off and disabled, and the typed message is then sent
C23_Witness ==
    /\ SinkError = {ErrOther}
    /\ toggles = 1
    /\ am_is_recording
    /\ ~speech_mode
    /\ ~speech_enabled
    /\ \E i \in 1..Len(outbound) : outbound[i].type = "conversation.item.create"


\* the threads running _process_audio_input
Running == {t \in Threads : thr_pc[t] = "running"}

\* C24: when the wait of _start_speech_mode ends with the client still not
\* connected, voice mode is switched off and recording, playback and the
\* processing threads are as they were before; capture, playback and a
\* processing thread are started only with the client connected.
C24_VoiceModeNeedsConnection ==
    /\ [][(start_speech_mode_after_wait /\ ~is_connected) =>
             /\ ~speech_mode'
             /\ last_error_message' = ErrVoiceConnection
             /\ am_is_recording' = am_is_recording
             /\ am_is_playing' = am_is_playing
             /\ pb_worker' = pb_worker
             /\ thr_pc' = thr_pc]_vars
    /\ [][(\/ ~am_is_recording /\ am_is_recording'
           \/ ~am_is_playing /\ am_is_playing'
           \/ Running' \ Running # {}) => is_connected]_vars

\* the wait ended without a connection: voice mode is off, nothing was
\* started, and the attempt posted by _start_speech_mode has not connected
C24_Witness ==
    /\ last_error_message = ErrVoiceConnection
    /\ main_pc = MainIdle
    /\ toggles = 1
    /\ ~speech_mode
    /\ ~is_connected
    /\ ~am_is_recording
    /\ ~am_is_playing
    /\ Running = {}
    /\ loopq # <<>>


----------------------------------------------------------------------------
\* Properties of the accumulation loop, a statement at a time (SpecLoopExit).

\* voice mode was switched off and, with one period of voice mode, stays off
ToggledOff == toggles > 0 /\ ~speech_mode

\* C25: the loop is entered only while speech_mode is true, and once voice
\* mode is off and stays off every loop thread eventually returns.  A
\* thread that is at the loop test when voice mode is off takes no further
\* frame; a chunk handed over after the toggle comes from a thread that was
\* already waiting in audio_buffer.get, and that thread is then at the
\* loop test.
C25_LoopExitsAfterToggleOff ==
    /\ ToggledOff ~> (Running = {} /\ \A t \in Threads : thr_pc[t] # "getting")
    /\ [][\A t \in Threads :
             (thr_pc[t] = "running" /\ thr_pc'[t] = "getting") => speech_mode]_vars
    /\ [][(ToggledOff /\ drained' # drained) =>
             \E t \in Threads : thr_pc[t] = "getting" /\ thr_pc'[t] = "running"]_vars

\* the thread returned after voice mode was switched off, having handed
\* over a chunk
C25_Witness ==
    /\ ToggledOff
    /\ drained # <<>>
    /\ \E t \in Threads : thr_pc[t] = "stopped"
    /\ \A t \in Threads : thr_pc[t] \in {"none", "stopped"}

\* C25 as stated: once voice mode is off and stays off the loop thread
\* eventually returns and hands over no further chunk.
C25_NoChunkAfterToggleOff ==
    /\ ToggledOff ~> (Running = {} /\ \A t \in Threads : thr_pc[t] # "getting")
    /\ [][ToggledOff => drained' = drained]_vars


----------------------------------------------------------------------------
\* Properties of the accumulator across voice-mode periods (SpecPeriods).

\* the samples of the frames captured after k toggles, as _on_audio_input
\* puts them on audio_buffer
CapturedIn(k) == Amplify(ToInt16(PeriodSound(k), 100))

\* C26: a chunk handed over during a voice-mode period holds only frames
\* captured during that period: none captured during an earlier one.
C26_AccumulatorResetsOnModeChange ==
    [][drained' # drained =>
          LET audio_to_send == drained'[Len(drained')].chunk.audio IN
          \A i \in 1..Len(audio_to_send) :
              audio_to_send[i] = CapturedIn(toggles)[1]]_vars


----------------------------------------------------------------------------
\* Properties of the receive loop when the transport closes or a message
\* cannot be handled (SpecConnect, SpecProtocolError).

\* C27: when the receive loop of a connection ends because the transport
\* closed, is_connected is false afterwards, and the step starts no
\* connect().
C27_TransportCloseDisconnects ==
    [][\A c \in Conns :
          (/\ listener[c] = "running"
           /\ listener'[c] = "exited"
           /\ inbound[c] = <<>>
           /\ ws_state[c] \in {"closed_ok", "closed_err"})
          => (~is_connected' /\ conn_pc' = conn_pc /\ attempt' = attempt)]_vars


\* the message types _handle_message has a branch for
HandledTypes ==
    { "session.created", "response.audio.delta", "response.text.delta",
      "response.text.done", "response.audio_transcript.delta",
      "response.audio_transcript.done", "input_audio_buffer.speech_started",
      "input_audio_buffer.speech_stopped", "response.done", "error" }

\* a malformed or unexpected message
ProtocolErrorMsg(m) ==
    \/ m.type = Malformed
    \/ Raises(m)
    \/ m.type \notin HandledTypes \cup {Malformed, NotAnObject}

\* the last message the receive loop took was malformed or unexpected
AfterProtocolError ==
    \/ lastAct \in {"recv:undecodable", "recv:raised"}
    \/ lastAct = "recv:handled" /\ lastMsg.type \notin HandledTypes

\* the receive loop of connection c takes a message in this step
Receives(c) ==
    /\ listener[c] = "running"
    /\ inbound[c] # <<>>
    /\ ~stop_event
    /\ inbound'[c] = Tail(inbound[c])

\* C28: a step of the receive loop that takes an undecodable message, a
\* message of an unknown type or a message whose handling raises leaves
\* the loop running and is_connected as it was, and invokes no callback to
\* completion; the message taken right after such a message is dispatched
\* as usual: a complete text reaches the text callback and the dialogue.
C28_ProtocolErrorSessionContinues ==
    [][\A c \in Conns : Receives(c) =>
          LET m == Head(inbound[c]) IN
          /\ ProtocolErrorMsg(m) =>
                /\ listener'[c] = "running"
                /\ is_connected' = is_connected
                /\ npc_message' = npc_message
                /\ last_error_message' = last_error_message
          /\ (AfterProtocolError /\ m.type = "response.text.done" /\ m.data # <<>>) =>
                /\ cbs' = <<Cb("text", m.data, TRUE)>>
                /\ npc_message' = m.data
                /\ listener'[c] = "running"]_vars

C28_Witness ==
    /\ prevAct \in {"recv:undecodable", "recv:raised"}
    /\ lastAct = "recv:handled"
    /\ cbs = <<Cb("text", <<"a", "b">>, TRUE)>>
    /\ npc_message = <<"a", "b">>
    /\ is_connected
    /\ \E c \in Conns : listener[c] = "running"


----------------------------------------------------------------------------
\* Properties of the client operations on a session that is not connected
\* (SpecText, SpecCommit).

\* the caller calls configure_session in this step
ConfiguresSession ==
    /\ calls' = calls + 1
    /\ op_arg' = "CEO"

\* C29: configure_session called while is_connected is false returns
\* False, writes no message, and leaves current_voice,
\* current_instructions and current_npc_name as they were.
C29_ConfigureNotConnectedIsNoop ==
    [][(ConfiguresSession /\ ~is_connected) =>
          /\ lastAct' = "configure_session:false"
          /\ op_pc' = "idle"
          /\ outbound' = outbound
          /\ op_sent' = <<>>
          /\ current_voice' = current_voice
          /\ current_instructions' = current_instructions
          /\ current_npc_name' = current_npc_name]_vars

C29_Witness ==
    /\ lastAct = "configure_session:false"
    /\ op_arg = "CEO"
    /\ ~is_connected
    /\ \E c \in Conns : ws_state[c] = "closed_err"
    /\ current_voice # ClientVoice("CEO")
    /\ current_npc_name # "CEO"


\* the caller calls commit_audio_buffer in this step (SpecCommit has no
\* other client operation)
CommitsAudioBuffer == calls' = calls + 1

CommitMessage == Out("input_audio_buffer.commit", <<>>)

\* C30: commit_audio_buffer() called on a connected session (is_connected
\* with an open connection) writes one input_audio_buffer.commit message,
\* writes nothing else until it returns, and returns with is_processing
\* true; called while is_connected is false it returns at once with no
\* message written and is_processing as it was.
C30_CommitSendsOnceAndSetsProcessing ==
    [][/\ (CommitsAudioBuffer /\ is_connected /\ CanSend) =>
             /\ outbound' = Append(outbound, CommitMessage)
             /\ op_sent' = <<"input_audio_buffer.commit">>
             /\ op_pc' = "commit_sent"
       /\ op_pc = "commit_sent" =>
             /\ outbound' = outbound
             /\ op_pc' \in {"commit_sent", "idle"}
             /\ op_pc' = "idle" =>
                   (is_processing' /\ lastAct' = "commit_audio_buffer:ok")
       /\ (CommitsAudioBuffer /\ ~is_connected) =>
             /\ outbound' = outbound
             /\ op_sent' = <<>>
             /\ is_processing' = is_processing
             /\ op_pc' = "idle"]_vars

\* a commit that was sent and set is_processing, followed, after the
\* connection was lost, by a commit that changed nothing
C30_Witness ==
    /\ prevAct = "commit_audio_buffer:ok"
    /\ lastAct = "commit_audio_buffer:not_connected"
    /\ ~is_connected
    /\ is_processing
    /\ Len(SelectSeq(outbound, LAMBDA o : o = CommitMessage)) = 1


----------------------------------------------------------------------------
\* Idempotence of disconnect() (SpecCommit) and of the engine's stop
\* operations (SpecEngine).

\* the state disconnect() leaves
Disconnected ==
    /\ ~is_connected
    /\ websocket = None
    /\ ~is_processing
    /\ stop_event

\* C31: every disconnect() returns (it has no raising exit) with
\* is_connected false, no websocket, is_processing false and stop_event
\* set, on a session that never connected as well; called in that state
\* it returns at once and changes nothing of the client or the wire.
C31_DisconnectIdempotent ==
    [][/\ (disc_pc' = "idle" /\ (disc_pc = "closing" \/ DisconnectCall))
             => (Disconnected' /\ lastAct' = "disconnect")
       /\ (Disconnected /\ DisconnectCall)
             => /\ disc_pc' = "idle"
                /\ clientVars' = clientVars
                /\ wireVars' = wireVars
                /\ listener' = listener]_vars

\* two disconnect() in a row have returned, the first on a session that
\* had sent a commit
C31_Witness ==
    /\ prevAct = "disconnect"
    /\ lastAct = "disconnect"
    /\ disc_pc = "idle"
    /\ Disconnected
    /\ outbound # <<>>


\* output streams open: the one of the worker in output_thread, and those
\* of the workers that were not joined
OpenOutputStreams == (IF pb_worker = "running" THEN 1 ELSE 0) + pb_stale

\* C32 as stated: stop_recording() and stop_playback() change nothing
\* when the engine is not recording (not playing), and each returns with
\* the engine flag false and the stream closed.
C32_StopClosesStream ==
    [][/\ StopRecordingCall =>
             /\ ~am_is_recording'
             /\ ~am_is_recording => UNCHANGED <<amVars, xVars>>
       /\ StopPlaybackCall =>
             /\ ~am_is_playing'
             /\ ~am_is_playing => UNCHANGED <<amVars, xVars>>
             /\ am_is_playing => OpenOutputStreams' = 0]_vars

\* C32: stop_recording() and stop_playback() change nothing when the
\* engine is not recording (not playing), so a second call in a row is a
\* no-op; each returns with the engine flag false; stop_playback leaves no
\* worker in output_thread, and it leaves the output stream of the worker
\* closed unless its join timed out.
C32_StopIdempotentFlagsCleared ==
    [][/\ StopRecordingCall =>
             /\ ~am_is_recording'
             /\ ~am_is_recording => UNCHANGED <<amVars, xVars>>
       /\ StopPlaybackCall =>
             /\ ~am_is_playing'
             /\ pb_worker' = "none"
             /\ ~am_is_playing => UNCHANGED <<amVars, xVars>>
             /\ (am_is_playing /\ lastAct' # "stop_playback:timeout") =>
                   OpenOutputStreams' = pb_stale]_vars

\* both operations have been called a second time in a row
C32_Witness ==
    /\ lastAct = "stop_playback:noop"
    /\ prevAct \in {"stop_playback", "stop_playback:timeout"}
    /\ ~am_is_playing
    /\ ~am_is_recording
    /\ pb_worker = "none"


----------------------------------------------------------------------------
\* Properties of the persona-to-profile map (SpecProfiles).

\* C33: after set_npc_voice_config(p, voice, instructions, sample),
\* get_npc_voice_config(p) is the profile with exactly those values, the
\* profiles of the other personas are the ones they had, and no persona
\* is lost; get_npc_voice_config of a persona without a profile is the
\* profile of "HR", which the map always holds.
C33_ProfileMapRoundTrips ==
    /\ []("HR" \in DOMAIN npc_voices)
    /\ [](\A q \in LookedUp \ DOMAIN npc_voices :
              get_npc_voice_config(q) = npc_voices["HR"])
    /\ [][\A npc \in ProfilePersonas, v \in ProfileVoices,
             i \in ProfileInstructions, sm \in ProfileSamples :
             set_npc_voice_config(npc, v, i, sm) =>
                /\ get_npc_voice_config(npc)' = Profile(v, i, sm)
                /\ DOMAIN npc_voices' = DOMAIN npc_voices \cup {npc}
                /\ \A q \in DOMAIN npc_voices \ {npc} :
                       get_npc_voice_config(q)' = get_npc_voice_config(q)]_vars

\* a new persona has a profile, the profile of HR was replaced, the one of
\* CEO is the initial one, and an unknown persona gets the profile of HR
C33_Witness ==
    /\ "Intern" \in DOMAIN npc_voices
    /\ get_npc_voice_config("Intern") =
          Profile("nova", "You are a technical expert.", "Hello from engineering!")
    /\ npc_voices["HR"].voice = "fable"
    /\ get_npc_voice_config("CEO") = InitialVoices["CEO"]
    /\ get_npc_voice_config("Ghost") = npc_voices["HR"]


----------------------------------------------------------------------------
\* Properties of the text shown while a response streams (SpecStream).

DeltaTypes == {"response.text.delta", "response.audio_transcript.delta"}

\* the events of the stream that the receive loop has handled
HandledOfStream == emitted - Len(inbound[websocket])

RECURSIVE DeltasOf(_, _)
\* the deltas of response r among the first k events of the stream, joined
DeltasOf(r, k) ==
    IF k = 0 THEN <<>>
    ELSE DeltasOf(r, k - 1) \o
         (IF TextStream[k].type \in DeltaTypes /\ TextStream[k].resp = r
          THEN TextStream[k].data ELSE <<>>)

\* C34: after a partial text event was handled, npc_message is the
\* concatenation of the deltas received so far of the response the event
\* belongs to, and of no other response.
C34_PartialTextOfCurrentResponseOnly ==
    (/\ lastAct = "recv:handled"
     /\ lastMsg.type \in DeltaTypes
     /\ websocket # None)
        => npc_message = DeltasOf(lastMsg.resp, HandledOfStream)


----------------------------------------------------------------------------
\* Properties of the threads and connections that exist at a time
\* (SpecPeriods, SpecSetupTwice, SpecStop).

\* C35: at most one thread runs the loop of _process_audio_input at any
\* time.
C35_SingleAccumulationLoop == Cardinality(Running) <= 1


\* C36: no two connections of the client are open at the same time, and
\* no two receive loop tasks are alive at the same time.
C36_OneConnectionOneReceiveLoop ==
    \A c, d \in Conns :
        /\ (ws_state[c] = "open" /\ ws_state[d] = "open") => c = d
        /\ (c \in LiveListeners /\ d \in LiveListeners) => c = d


\* C37: at most one playback worker is alive with an output stream open.
C37_SinglePlaybackWorker == OpenOutputStreams <= 1


----------------------------------------------------------------------------
\* Properties of the flags of a session that is not connected (Spec).

\* C38: while is_connected is false, is_processing and is_playing are
\* false.
C38_DisconnectedMeansNoResponseInProgress ==
    ~is_connected => (~is_processing /\ ~is_playing)


----------------------------------------------------------------------------
\* Properties of the streams while voice mode is off (SpecErrorSink).

\* C39: while speech_mode is false and the main thread is not inside
\* toggle_speech_mode, the engine is neither recording nor playing.
C39_VoiceOffMeansStreamsStopped ==
    (~speech_mode /\ main_pc = MainIdle) => (~am_is_recording /\ ~am_is_playing)


\* a session setup a start_conversation posted that has not finished:
\* waiting or running on the running loop (it leaves the queue when it
\* configures the session or logs the failed connect), or posted to a
\* stopped loop
SetupPending ==
    \/ stranded # <<>>
    \/ \E i \in DOMAIN loopq : loopq[i].op = "setup_realtime_session"

\* C40: every start_conversation with speech enabled eventually runs the
\* session setup on a live event loop, a start_conversation that follows
\* the _cleanup of a previous conversation included: the setup coroutine
\* is never posted to an event loop that has been stopped, and a setup
\* that was posted eventually starts.
C40_SetupRunsOnLiveLoop ==
    /\ [](stranded = <<>>)
    /\ SetupPending ~> ~SetupPending

=============================================================================
